---------------------------- MODULE Spec2Model ----------------------------
(***************************************************************************)
(* A model of the LKQ scrape engine of xpedia-parts-scrapers-node: the     *)
(* trigger (POST /run -> addScraperJob -> runScraper -> scrape), the       *)
(* pagination loop of scrape, the fetch client makeApiRequest with its     *)
(* retries and proxy rotation, extractProductsFromApi, saveProducts and    *)
(* updateRunStatus, over the three tables of prisma/schema.prisma.         *)
(*                                                                         *)
(* Encodings.  Ids are naturals, 0 standing for "no id" (undefined/null).  *)
(* A sku is a natural, 0 standing for the empty string ''.  Timestamps are *)
(* booleans (set / not set).  One engine runs at a time: pc is the place   *)
(* of the single control thread inside the async functions.                *)
(*                                                                         *)
(* Spec and FairSpec are the engine.  Three further specifications start   *)
(* from the engine's initial state and cover what it does not: SharedSpec  *)
(* (several scrapes on the one proxy manager), WritersSpec (concurrent     *)
(* saveProducts transactions), ProxySpec / ProxyFairSpec                   *)
(* (utils/proxyRequest.js) and StoreSpec (pages of items with and without  *)
(* number and id).                                                         *)
(***************************************************************************)
EXTENDS Integers, Sequences, FiniteSets, TLC

(***************************************************************************)
(* Program constants                                                       *)
(***************************************************************************)
take == 50
batchSize == 50
DefaultMaxPages == 10
LkqMaxPages == 10
LkqCategories == 2
PoolSize == 3
DefaultProxyRetries == 3
DefaultMaxProducts == 1000

(***************************************************************************)
(* Bounds of the model                                                     *)
(***************************************************************************)
\* Most invocations (route calls, direct calls of the exported functions).
MaxRuns == 2
\* Largest upstream inventory of a category.
MaxItems == 120
\* Largest maxPages a caller of scrape configures.
MaxPagesCfg == 3
\* Most page-level faults (failed fetches, bad bodies, failed transactions)
\* the environment produces in one behaviour.
MaxFaults == 1
\* The maxProducts a POST /run body carries, when it carries one.
MaxProductsArg == 60
\* Largest inventory when several invocations follow one another.
SmallItems == 2
\* The calls of getNextProxy that are counted; the count stays there.
MaxCalls == 5
\* Most scrapes running interleaved on the shared proxy manager, and the most
\* attempts each of them makes.
MaxClients == 2
MaxAttempts == 3
\* Most getProxyByIndex calls each of them makes.
MaxByIndexCalls == 1
\* Most saveProducts calls whose transactions are open at the same time.
MaxWriters == 2
\* Largest maxRetries a caller of makeProxyRequest passes, longest url list
\* and largest concurrency a caller of makeParallelProxyRequests passes.
MaxRetriesArg == 3
MaxUrls == 3
MaxConcurrency == 2
\* Longest page of arbitrary upstream items, and most items handed to
\* saveProducts in one behaviour of such pages.
MaxPageLen == 2
MaxSightings == 3

Min(a, b) == IF a < b THEN a ELSE b
Max(a, b) == IF a > b THEN a ELSE b

\* The inventories a category's upstream may hold when the largest is m:
\* empty, a short page, one full page, and pages ending in a short one.
UpstreamSizes(m) == {0, m % take, Min(m, take), m}

Terminal == {"completed", "failed", "error"}

VARIABLES
  scrapers,        \* table Scraper: set of [id, name]
  runs,            \* table ScraperRun: run id -> record
  products,        \* table LkqProduct: set of rows
  proxyRotator,    \* proxy manager: index the rotation yielded last, -1 before initialize
  catalog,         \* upstream: the largest inventory of this behaviour
  inventory,       \* upstream: category index -> number of items it holds
  poison,          \* upstream: the item number whose upsert fails (0: none)
  rejection,       \* who rejects that upsert: "client" (Prisma, before the
                   \* statement is sent) or "database" (PostgreSQL, inside the
                   \* transaction)
  pc,              \* place of the control thread
  budget,          \* invocations left
  faults,          \* page-level faults produced so far
  nextId,          \* next generated id (uuid / shortid)
  job,             \* addScraperJob: jobData [scraperId, runId, config.categories
                   \* (<<>>: not given), config.maxProductsToScrape (0: not given)]
  caller,          \* who awaits scrape: "job" or "direct"
  config,          \* scrape: config [categories, maxPages]
  options,         \* scrape: options [runId, scraperId]
  runStatus,       \* scrape: runStatus [id, scraperId, status, endTime]
  stats,           \* scrape: stats
  loop,            \* scrape: [i, pageNum, skip, hasMoreProducts, apiUrl, maxPages]
  response,        \* the body makeApiRequest returned to the loop
  log,             \* history: per category, the page iterations of this scrape
  lastSave,        \* history: what the latest saveProducts call did
  termWrites,      \* history: run id -> number of terminal statuses written
  calls,           \* history: number of getNextProxy calls so far (up to MaxCalls)
  invocations,     \* history: the entry points called so far, in order
  attempt,         \* history: what the latest attempt of the request under way met
  clients,         \* interleaved scrapes on the shared proxy manager:
                   \* client -> [pc, left, byIndex (history: what its
                   \* getProxyByIndex calls asked for and got)]
  handed,          \* history: the getNextProxy calls of all clients, in order
  requests,        \* makeProxyRequest calls in flight: index -> state of the call
  parallel,        \* makeParallelProxyRequests: the call's local variables
  writers,         \* concurrent saveProducts calls: writer -> state of its transaction
  sightings        \* history: the upstream items of the pages handed to
                   \* saveProducts one after another, in order

dbVars == <<scrapers, runs, products>>
envVars == <<catalog, inventory, poison, rejection>>
scrapeVars == <<config, options, runStatus, stats, loop, response, log>>
vars == <<scrapers, runs, products, proxyRotator, catalog, inventory, poison,
          rejection, pc,
          budget, faults, nextId, job, caller, config, options, runStatus, stats, loop,
          response, log, lastSave, termWrites, calls, invocations, attempt,
          clients, handed, requests, parallel, writers, sightings>>

\* The variables of the scrape engine, and those of the other entry points
\* (the shared proxy manager under several scrapes, utils/proxyRequest.js,
\* concurrent saveProducts calls).
engineVars == <<scrapers, runs, products, proxyRotator, catalog, inventory, poison,
                rejection, pc,
                budget, faults, nextId, job, caller, config, options, runStatus,
                stats, loop, response, log, lastSave, termWrites, calls,
                invocations, attempt>>
otherVars == <<clients, handed, requests, parallel, writers, sightings>>

(***************************************************************************)
(* Upstream catalog                                                        *)
(***************************************************************************)
\* Item j of category c.  Both categories list the same part numbers with
\* different prices, so a later category (or run) re-sights the SKUs of an
\* earlier one with other field values.
\* The three embedded JSON strings of an item (_salvageSourceVehicle,
\* fitments, fitmentJson) are, from item to item, a string that parses
\* ("json"), a string that does not ("garbage") or not there ("absent"); the
\* items of a page between them show every combination.
Embedded(n) ==
  IF n % 3 = 0 THEN "json" ELSE IF n % 3 = 1 THEN "garbage" ELSE "absent"

Item(c, j) ==
  [number |-> j, id |-> 1000 + j, price |-> c, bad |-> (j = poison),
   salvageSourceVehicle |-> Embedded(j),
   fitments |-> Embedded(j \div 3),
   fitmentJson |-> Embedded(j \div 9)]

\* The number of items the upstream returns for a request with offset s.
PageSize(c, s) == Min(take, Max(0, inventory[c] - s))

\* The items of a page of n items at offset s.
PageItems(c, s, n) == [k \in 1..n |-> Item(c, s + k)]

(***************************************************************************)
(* extractProductsFromApi                                                  *)
(***************************************************************************)
\* item.number || item.id
ItemSku(item) == IF item.number # 0 THEN item.number ELSE item.id

\* JSON.parse of an embedded string inside its own try/catch, lines 333-358:
\* the parsed value, or null when the field is not a string or does not
\* parse.
ParseEmbedded(field) == IF field = "json" THEN "parsed" ELSE "null"

ExtractProduct(item, c) ==
  [sku |-> ItemSku(item),
   price |-> item.price,
   categoryUrl |-> c,
   bad |-> item.bad,
   sourceVehicleData |-> ParseEmbedded(item.salvageSourceVehicle),
   fitments |-> ParseEmbedded(item.fitments),
   fitmentJson |-> ParseEmbedded(item.fitmentJson)]

\* Variant of extractProductsFromApi: the embedded strings are parsed without
\* a try/catch of their own, so one that does not parse throws out of the map
\* and the outer catch returns [].
extractProductsFromApiParseThrows(body, c) ==
  IF body.kind = "products"
     /\ \A k \in 1..Len(body.items) :
          /\ body.items[k].salvageSourceVehicle # "garbage"
          /\ body.items[k].fitments # "garbage"
          /\ body.items[k].fitmentJson # "garbage"
    THEN [k \in 1..Len(body.items) |-> ExtractProduct(body.items[k], c)]
    ELSE <<>>

\* body.kind: "products" (data is an array of items), "noarray" (no data
\* array), "baditem" (an array holding a null item: the map throws and the
\* catch returns []).
extractProductsFromApi(body, c) ==
  IF body.kind = "products"
    THEN [k \in 1..Len(body.items) |-> ExtractProduct(body.items[k], c)]
    ELSE <<>>

(***************************************************************************)
(* saveProducts                                                            *)
(***************************************************************************)
ProductData(product, categoryName, runId) ==
  [sku |-> product.sku,
   price |-> product.price,
   categoryUrl |-> categoryName,
   scraperRunId |-> runId]

\* Variant of Upsert: an update adds the new price to the stored one instead
\* of overwriting it.
UpsertAddsPrice(store, pd) ==
  IF \E r \in store : r.sku = pd.sku
    THEN {IF r.sku = pd.sku
            THEN [sku |-> pd.sku, price |-> r.price + pd.price,
                  categoryUrl |-> pd.categoryUrl,
                  scraperRunId |-> pd.scraperRunId, updated |-> TRUE]
            ELSE r : r \in store}
    ELSE store \cup {[sku |-> pd.sku, price |-> pd.price, categoryUrl |-> pd.categoryUrl,
                      scraperRunId |-> pd.scraperRunId, updated |-> FALSE]}

\* Variant of Upsert: a plain insert that never looks for an existing row.
InsertRow(store, pd) ==
  store \cup {[sku |-> pd.sku, price |-> pd.price, categoryUrl |-> pd.categoryUrl,
               scraperRunId |-> pd.scraperRunId,
               updated |-> (\E r \in store : r.sku = pd.sku)]}

\* Variant of Upsert: an update overwrites the fields but keeps the run
\* back-reference of the row it finds.
UpsertKeepsRunId(store, pd) ==
  IF \E r \in store : r.sku = pd.sku
    THEN {IF r.sku = pd.sku
            THEN [sku |-> pd.sku, price |-> pd.price, categoryUrl |-> pd.categoryUrl,
                  scraperRunId |-> r.scraperRunId, updated |-> TRUE]
            ELSE r : r \in store}
    ELSE store \cup {[sku |-> pd.sku, price |-> pd.price, categoryUrl |-> pd.categoryUrl,
                      scraperRunId |-> pd.scraperRunId, updated |-> FALSE]}

\* tx.lkqProduct.upsert({where: {sku}, update: {...productData, updatedAt}, create: productData})
Upsert(store, pd) ==
  IF \E r \in store : r.sku = pd.sku
    THEN {IF r.sku = pd.sku
            THEN [sku |-> pd.sku, price |-> pd.price, categoryUrl |-> pd.categoryUrl,
                  scraperRunId |-> pd.scraperRunId, updated |-> TRUE]
            ELSE r : r \in store}
    ELSE store \cup {[sku |-> pd.sku, price |-> pd.price, categoryUrl |-> pd.categoryUrl,
                      scraperRunId |-> pd.scraperRunId, updated |-> FALSE]}

\* One record of a batch: the upsert, or the catch that counts an error.
\* An upsert that the database rejects leaves the PostgreSQL transaction
\* aborted: every later statement of the transaction fails as well.
SaveOne(acc, product, categoryName, runId) ==
  IF acc.aborted
    THEN [acc EXCEPT !.errors = @ + 1]
  ELSE IF product.bad
    THEN [acc EXCEPT !.errors = @ + 1, !.aborted = (rejection = "database")]
    ELSE LET pd == ProductData(product, categoryName, runId)
         IN [acc EXCEPT !.store = Upsert(@, pd),
                        !.saved = @ + 1]

RECURSIVE SaveBatch(_, _, _, _, _, _)
\* The body of one transaction: the records lo..hi of the batch, in order.
\* The range is halved; the accumulator left by the first half is bound as a
\* value before the second half runs on it.
SaveBatch(acc, batch, lo, hi, categoryName, runId) ==
  IF lo > hi THEN acc
  ELSE IF lo = hi THEN SaveOne(acc, batch[lo], categoryName, runId)
  ELSE LET mid == (lo + hi) \div 2
       IN CHOOSE r \in {SaveBatch(first, batch, mid + 1, hi, categoryName, runId) :
                          first \in {SaveBatch(acc, batch, lo, mid, categoryName, runId)}} :
            TRUE

RECURSIVE SaveFrom(_, _, _, _, _, _)
\* The batch loop from offset i (0-based) on.  failBatch names the batch (by
\* its 1-based number) whose transaction rejects, 0 when none does: that
\* batch is rolled back, the outer catch adds products.length errors and the
\* later batches are not run.  The commit of an aborted transaction is a
\* rollback that reports no error: the counters stay, the rows go.
SaveFrom(acc, prods, i, categoryName, runId, failBatch) ==
  IF i >= Len(prods) THEN acc
  ELSE LET batch == SubSeq(prods, i + 1, Min(i + batchSize, Len(prods)))
       IN CHOOSE r \in
            {IF failBatch = (i \div batchSize) + 1
               THEN [done EXCEPT !.store = acc.store, !.errors = @ + Len(prods),
                                 !.aborted = FALSE, !.rolledBack = TRUE]
             ELSE IF done.aborted
               THEN SaveFrom([done EXCEPT !.store = acc.store, !.aborted = FALSE,
                                          !.rolledBack = TRUE],
                             prods, i + batchSize, categoryName, runId, failBatch)
               ELSE SaveFrom(done, prods, i + batchSize, categoryName, runId, failBatch) :
             done \in {SaveBatch(acc, batch, 1, Len(batch), categoryName, runId)}} :
            TRUE

\* saveProducts(products, categoryName, runId) on the table `store`:
\* the table afterwards, the counters returned, and whether a transaction
\* was rolled back.
saveProducts(store, prods, categoryName, runId, failBatch) ==
  SaveFrom([store |-> store, saved |-> 0, duplicates |-> 0, errors |-> 0,
            aborted |-> FALSE, rolledBack |-> FALSE],
           prods, 0, categoryName, runId, failBatch)

(***************************************************************************)
(* Run records and updateRunStatus                                         *)
(***************************************************************************)
ZeroStats(total) ==
  [categories |-> [processed |-> 0, total |-> total, errors |-> 0],
   products |-> [scraped |-> 0, saved |-> 0, duplicates |-> 0, errors |-> 0],
   pages |-> [processed |-> 0, errors |-> 0]]

\* The statistics column: null, the engine's stats object (with endTime and
\* error once the run ended), or addScraperJob's `result` wrapper
\* {status, runId, stats}.
NullStatistics ==
  [doc |-> "null", stats |-> ZeroStats(0), endTime |-> FALSE, error |-> FALSE,
   status |-> "", runId |-> 0]

StatsDocument(st, ended, failed) ==
  [doc |-> "stats", stats |-> st, endTime |-> ended, error |-> failed,
   status |-> "", runId |-> 0]

ResultDocument(res) ==
  [doc |-> "result", stats |-> res.stats, endTime |-> TRUE,
   error |-> (res.status = "error"), status |-> res.status, runId |-> res.runId]

\* History: one more terminal status written to run id.
Stamp(tw, id, status) ==
  IF status \in Terminal
    THEN (id :> ((IF id \in DOMAIN tw THEN tw[id] ELSE 0) + 1)) @@ tw
    ELSE tw

LkqScraper(db) == {s \in db : s.name = "lkq"}

\* Variant of updateRunStatus: when the 'lkq' scraper is not found no scraper
\* is created, and the run record has nothing to connect to.
updateRunStatusNoPlaceholder(runsDb, scrapersDb, ids, st, statistics) ==
  LET found == LkqScraper(scrapersDb)
      sid == IF st.scraperId # 0 THEN st.scraperId
             ELSE IF found # {} THEN (CHOOSE s \in found : TRUE).id
             ELSE 0
      newRuns ==
        IF st.id \in DOMAIN runsDb
          THEN [runsDb EXCEPT ![st.id].status = st.status,
                              ![st.id].completedAt = st.endTime,
                              ![st.id].statistics = statistics]
        ELSE IF \E s \in scrapersDb : s.id = sid
          THEN (st.id :> [status |-> st.status, scraperId |-> sid,
                          startedAt |-> TRUE, completedAt |-> st.endTime,
                          statistics |-> statistics, error |-> FALSE]) @@ runsDb
        ELSE runsDb
  IN [runs |-> newRuns, scrapers |-> scrapersDb, scraperId |-> sid,
      nextId |-> ids]

\* updateRunStatus(status): resolves a missing scraperId (the 'lkq' scraper,
\* else a new dummy scraper), then updates the run record when it exists and
\* creates it otherwise.  Every error is caught and logged.  Returns the
\* tables, the scraperId left on the status object, and the id counter.
updateRunStatus(runsDb, scrapersDb, ids, st, statistics) ==
  LET found == LkqScraper(scrapersDb)
      sid == IF st.scraperId # 0 THEN st.scraperId
             ELSE IF found # {} THEN (CHOOSE s \in found : TRUE).id
             ELSE ids
      newScrapers == IF st.scraperId = 0 /\ found = {}
                       THEN scrapersDb \cup {[id |-> ids, name |-> "dummy"]}
                       ELSE scrapersDb
      newIds == IF st.scraperId = 0 /\ found = {} THEN ids + 1 ELSE ids
      newRuns ==
        IF st.id \in DOMAIN runsDb
          THEN [runsDb EXCEPT ![st.id].status = st.status,
                              ![st.id].completedAt = st.endTime,
                              ![st.id].statistics = statistics]
        ELSE IF \E s \in newScrapers : s.id = sid
          THEN (st.id :> [status |-> st.status, scraperId |-> sid,
                          startedAt |-> TRUE, completedAt |-> st.endTime,
                          statistics |-> statistics, error |-> FALSE]) @@ runsDb
        ELSE runsDb   \* connect fails: the create throws and is logged
  IN [runs |-> newRuns, scrapers |-> newScrapers, scraperId |-> sid,
      nextId |-> newIds]

(***************************************************************************)
(* Initial state                                                           *)
(***************************************************************************)
NoJob == [scraperId |-> 0, runId |-> 0, categories |-> <<>>, maxProductsToScrape |-> 0]
NoConfig == [categories |-> <<>>, maxPages |-> 0]
NoOptions == [runId |-> 0, scraperId |-> 0]
NoLoop == [i |-> 0, pageNum |-> 0, skip |-> 0, hasMoreProducts |-> FALSE,
           apiUrl |-> 0, maxPages |-> 0]
NoAttempt == [status |-> 0, code |-> ""]
NoBody == [kind |-> "none", skip |-> 0, n |-> 0]
NoSave == [runId |-> 0, committed |-> FALSE, txFailed |-> FALSE, saved |-> 0,
           errors |-> 0, given |-> 0]

\* LKQ_CONFIG: two categories, maxPages 10.
LKQ_CONFIG == [categories |-> [c \in 1..LkqCategories |-> "valid"],
               maxPages |-> LkqMaxPages]

\* The configs a direct caller of scrape passes: one category and maxPages
\* from 0 (unset) up, or a list with a null entry.  (LKQ_CONFIG is the config
\* with two categories.)
Configs ==
  {[categories |-> <<"valid">>, maxPages |-> m] :
     m \in 0..(IF catalog = MaxItems THEN MaxPagesCfg ELSE 1)}
  \cup {[categories |-> <<"valid", "null">>, maxPages |-> 1]}

EngineInit ==
  /\ scrapers = {}
  /\ runs = <<>>
  /\ products = {}
  /\ proxyRotator = -1
  /\ \E b \in 1..MaxRuns :
       /\ budget = b
       /\ catalog = IF b = 1 THEN MaxItems ELSE SmallItems
  /\ inventory = [c \in 1..LkqCategories |-> 0]
  /\ poison = 0
  /\ rejection = "client"
  /\ pc = "idle"
  /\ faults = 0
  /\ nextId = 1
  /\ job = NoJob
  /\ caller = "direct"
  /\ config = NoConfig
  /\ options = NoOptions
  /\ runStatus = [id |-> 0, scraperId |-> 0, status |-> "", endTime |-> FALSE]
  /\ stats = ZeroStats(0)
  /\ loop = NoLoop
  /\ response = NoBody
  /\ log = <<>>
  /\ lastSave = NoSave
  /\ termWrites = <<>>
  /\ calls = 0
  /\ invocations = <<>>
  /\ attempt = NoAttempt

\* No call of the other entry points is under way.
NoParallel == [state |-> "none", urls |-> 0, concurrency |-> 0, i |-> 0,
               results |-> <<>>, errors |-> <<>>]

Init ==
  /\ EngineInit
  /\ clients = <<>>
  /\ handed = <<>>
  /\ requests = <<>>
  /\ parallel = NoParallel
  /\ writers = <<>>
  /\ sightings = <<>>

(***************************************************************************)
(* The trigger: POST /run and addScraperJob                                *)
(***************************************************************************)
\* const { maxProducts = 1000 } = req.body
MaxProductsOf(body) == IF body = 0 THEN DefaultMaxProducts ELSE body

\* router.post('/run'): get or create the 'lkq' scraper, create the run
\* record (pending), call addScraperJob with both ids and
\* config.maxProductsToScrape.  The body carries a maxProducts or none (0).
PostRun ==
  /\ pc = "idle"
  /\ budget > 0
  /\ LET found == LkqScraper(scrapers)
         sid == IF found # {} THEN (CHOOSE s \in found : TRUE).id ELSE nextId
         rid == IF found # {} THEN nextId ELSE nextId + 1
     IN /\ scrapers' = IF found # {} THEN scrapers
                       ELSE scrapers \cup {[id |-> sid, name |-> "lkq"]}
        /\ runs' = (rid :> [status |-> "pending", scraperId |-> sid,
                            startedAt |-> FALSE, completedAt |-> FALSE,
                            statistics |-> NullStatistics, error |-> FALSE]) @@ runs
        /\ \E body \in {0, MaxProductsArg} :
             job' = [scraperId |-> sid, runId |-> rid, categories |-> <<>>,
                     maxProductsToScrape |-> MaxProductsOf(body)]
        /\ nextId' = rid + 1
  /\ budget' = budget - 1
  /\ invocations' = Append(invocations, "POST /run")
  /\ pc' = "job"
  /\ UNCHANGED <<products, proxyRotator, envVars, faults, caller, scrapeVars,
                 lastSave, termWrites, calls, attempt>>
  /\ UNCHANGED otherVars

\* The category lists a caller of addScraperJob puts in jobData.config: none,
\* or a list with a null entry.
JobCategories == {<<>>, <<"valid", "null">>}

\* runScraper, lines 47-50: {...scraper.config, ...(options.config || {})}
\* over LKQ_CONFIG.  The merged config also carries maxProductsToScrape;
\* scrape reads categories and maxPages only.
MergedConfig(j) ==
  IF j.categories = <<>> THEN LKQ_CONFIG
  ELSE [LKQ_CONFIG EXCEPT !.categories = j.categories]

\* addScraperJob(jobData) called by another module with the id of a run
\* that exists, a scraper id that may not, and a config.
AddScraperJobCall ==
  /\ pc = "idle"
  /\ budget > 0
  /\ \E rid \in DOMAIN runs, sid \in {s.id : s \in scrapers} \cup {0},
        cats \in JobCategories :
       job' = [scraperId |-> sid, runId |-> rid, categories |-> cats,
               maxProductsToScrape |-> 0]
  /\ budget' = budget - 1
  /\ invocations' = Append(invocations, "addScraperJob")
  /\ pc' = "job"
  /\ UNCHANGED <<dbVars, proxyRotator, envVars, faults, nextId, caller,
                 scrapeVars, lastSave, termWrites, calls, attempt>>
  /\ UNCHANGED otherVars

\* addScraperJob, lines 15-42: the run goes to processing; the scraper is
\* looked up; runScraper builds the config from LKQ_CONFIG and calls
\* scrape(config) without options.  A scraper that is missing, or whose name
\* is not registered, throws into the catch.
addScraperJob ==
  /\ pc = "job"
  /\ runs' = [runs EXCEPT ![job.runId].status = "processing",
                          ![job.runId].startedAt = TRUE]
  /\ IF \E s \in scrapers : s.id = job.scraperId /\ s.name = "lkq"
       THEN /\ pc' = "scrape"
            /\ config' = MergedConfig(job)
            /\ options' = NoOptions
            /\ caller' = "job"
       ELSE /\ pc' = "jobFailed"
            /\ UNCHANGED <<config, options, caller>>
  /\ UNCHANGED <<scrapers, products, proxyRotator, envVars, budget, faults,
                 nextId, job, runStatus, stats, loop, response, log, lastSave,
                 termWrites, calls, invocations, attempt>>
  /\ UNCHANGED otherVars

\* addScraperJob, lines 44-54: scrape returned (whatever its result says).
AddScraperJobCompleted ==
  /\ pc = "jobDone"
  /\ runs' = [runs EXCEPT ![job.runId].status = "completed",
                          ![job.runId].completedAt = TRUE,
                          ![job.runId].statistics =
                             ResultDocument([status |-> IF runStatus.status = "completed"
                                                          THEN "success" ELSE "error",
                                             runId |-> runStatus.id,
                                             stats |-> stats])]
  /\ termWrites' = Stamp(termWrites, job.runId, "completed")
  /\ pc' = "idle"
  /\ UNCHANGED <<scrapers, products, proxyRotator, envVars, budget, faults,
                 nextId, job, caller, scrapeVars, lastSave, calls, invocations, attempt>>
  /\ UNCHANGED otherVars

\* addScraperJob, lines 55-71: the catch.
AddScraperJobFailed ==
  /\ pc = "jobFailed"
  /\ runs' = [runs EXCEPT ![job.runId].status = "failed",
                          ![job.runId].error = TRUE,
                          ![job.runId].completedAt = TRUE]
  /\ termWrites' = Stamp(termWrites, job.runId, "failed")
  /\ pc' = "idle"
  /\ UNCHANGED <<scrapers, products, proxyRotator, envVars, budget, faults,
                 nextId, job, caller, scrapeVars, lastSave, calls, invocations, attempt>>
  /\ UNCHANGED otherVars

\* createBaseScraper(...).initialize(runId): the run goes to running.
initialize ==
  /\ pc = "idle"
  /\ budget > 0
  /\ \E rid \in DOMAIN runs :
       runs' = [runs EXCEPT ![rid].status = "running"]
  /\ budget' = budget - 1
  /\ invocations' = Append(invocations, "initialize")
  /\ UNCHANGED <<scrapers, products, proxyRotator, envVars, pc, faults, nextId,
                 job, caller, scrapeVars, lastSave, termWrites, calls, attempt>>
  /\ UNCHANGED otherVars

(***************************************************************************)
(* scrape                                                                  *)
(***************************************************************************)
\* scrape(config, {runId}) called directly (lkqScraper.scrape is exported):
\* with no runId, or with the id of a run record that exists.
ScrapeCall ==
  /\ pc = "idle"
  /\ budget > 0
  /\ \E cfg \in Configs, rid \in DOMAIN runs \cup {0} :
       /\ config' = cfg
       /\ options' = [runId |-> rid, scraperId |-> 0]
  /\ caller' = "direct"
  /\ budget' = budget - 1
  /\ invocations' = Append(invocations, "scrape")
  /\ pc' = "scrape"
  /\ UNCHANGED <<dbVars, proxyRotator, envVars, faults, nextId, job, runStatus,
                 stats, loop, response, log, lastSave, termWrites, calls, attempt>>
  /\ UNCHANGED otherVars

\* Where scrape's caller continues once scrape has returned.
Return == IF caller = "job" THEN "jobDone" ELSE "idle"

\* let maxPages = config.maxPages || 10
EffectiveMaxPages(cfg) ==
  IF cfg.maxPages # 0 THEN cfg.maxPages ELSE DefaultMaxPages

\* while (hasMoreProducts && pageNum <= maxPages)
LoopContinues(l) == l.hasMoreProducts /\ l.pageNum <= l.maxPages

\* scrape, lines 32-66: the run id (given, or a fresh shortid), the zeroed
\* stats, runStatus 'starting', and the first updateRunStatus.
ScrapeBegin ==
  /\ pc = "scrape"
  /\ LET rid == IF options.runId # 0 THEN options.runId ELSE nextId
         ids == IF options.runId # 0 THEN nextId ELSE nextId + 1
         st == ZeroStats(Len(config.categories))
         rs == [id |-> rid, scraperId |-> options.scraperId,
                status |-> "starting", endTime |-> FALSE]
         u == updateRunStatus(runs, scrapers, ids, rs, StatsDocument(st, FALSE, FALSE))
     IN /\ runs' = u.runs
        /\ scrapers' = u.scrapers
        /\ nextId' = u.nextId
        /\ runStatus' = [rs EXCEPT !.scraperId = u.scraperId]
        /\ stats' = st
  /\ \E p \in {0} \cup (IF faults < MaxFaults THEN {2} ELSE {}),
        by \in {"client", "database"} :
       /\ p = 0 => by = "client"
       /\ poison' = p
       /\ rejection' = by
       /\ faults' = IF p # 0 THEN faults + 1 ELSE faults
  /\ log' = [c \in 1..Len(config.categories) |-> <<>>]
  /\ loop' = NoLoop
  /\ response' = NoBody
  /\ pc' = "running"
  /\ UNCHANGED <<products, proxyRotator, catalog, inventory, budget, job, caller,
                 config, options, lastSave, termWrites, calls, invocations, attempt>>
  /\ UNCHANGED otherVars

\* scrape, lines 68-74: status 'running', persisted.
ScrapeRunning ==
  /\ pc = "running"
  /\ LET rs == [runStatus EXCEPT !.status = "running"]
         u == updateRunStatus(runs, scrapers, nextId, rs,
                              StatsDocument(stats, FALSE, FALSE))
     IN /\ runs' = u.runs
        /\ scrapers' = u.scrapers
        /\ nextId' = u.nextId
        /\ runStatus' = [rs EXCEPT !.scraperId = u.scraperId]
  /\ loop' = [NoLoop EXCEPT !.i = 1]
  /\ pc' = "cat"
  /\ UNCHANGED <<products, proxyRotator, envVars, budget, faults, job, caller,
                 config, options, stats, response, log, lastSave, termWrites, calls, invocations, attempt>>
  /\ UNCHANGED otherVars

\* scrape, lines 76-94: the head of the category loop.  Reading the name of
\* a null category throws into the outer catch.  Otherwise the status is
\* persisted and the page loop's variables are set.  The upstream's holdings
\* for the category are fixed here, at its first use.
CategoryBegin ==
  /\ pc = "cat"
  /\ loop.i <= Len(config.categories)
  /\ IF config.categories[loop.i] = "null"
       THEN /\ pc' = "fatal"
            /\ UNCHANGED <<dbVars, nextId, runStatus, loop, inventory>>
       ELSE /\ LET u == updateRunStatus(runs, scrapers, nextId, runStatus,
                                        StatsDocument(stats, FALSE, FALSE))
               IN /\ runs' = u.runs
                  /\ scrapers' = u.scrapers
                  /\ nextId' = u.nextId
                  /\ runStatus' = [runStatus EXCEPT !.scraperId = u.scraperId]
            /\ loop' = [i |-> loop.i, pageNum |-> 1, skip |-> 0,
                        hasMoreProducts |-> TRUE, apiUrl |-> 0,
                        maxPages |-> EffectiveMaxPages(config)]
            /\ \E m \in UpstreamSizes(catalog) :
                 inventory' = [inventory EXCEPT ![loop.i] = m]
            /\ products' = products
            /\ pc' = "loop"
  /\ UNCHANGED <<proxyRotator, catalog, poison, rejection, budget, faults, job, caller,
                 config, options, stats, response, log, lastSave, termWrites, calls, invocations, attempt>>
  /\ UNCHANGED otherVars

\* Variant of PageRequest: makeApiRequest is called without await, and the
\* loop goes on to the next page while the request is under way.
PageRequestNotAwaited ==
  /\ pc = "loop"
  /\ LoopContinues(loop)
  /\ LET url == IF loop.skip > 0 THEN loop.skip ELSE loop.apiUrl
     IN /\ loop' = [loop EXCEPT !.apiUrl = url, !.skip = @ + take, !.pageNum = @ + 1]
        /\ log' = [log EXCEPT ![loop.i] =
                     Append(@, [skip |-> url, result |-> "pending", n |-> 0])]
  /\ pc' = "loop"
  /\ UNCHANGED <<dbVars, proxyRotator, envVars, budget, faults, nextId, job,
                 caller, config, options, runStatus, stats, response, lastSave,
                 termWrites, calls, invocations, attempt>>
  /\ UNCHANGED otherVars

\* scrape, lines 96-117: the loop condition holds; the URL gets skip and
\* take once skip > 0; makeApiRequest is called.
PageRequest ==
  /\ pc = "loop"
  /\ LoopContinues(loop)
  /\ LET url == IF loop.skip > 0 THEN loop.skip ELSE loop.apiUrl
     IN /\ loop' = [loop EXCEPT !.apiUrl = url]
        /\ log' = [log EXCEPT ![loop.i] =
                     Append(@, [skip |-> url, result |-> "pending", n |-> 0])]
  /\ pc' = "fetch"
  /\ UNCHANGED <<dbVars, proxyRotator, envVars, budget, faults, nextId, job,
                 caller, config, options, runStatus, stats, response, lastSave,
                 termWrites, calls, invocations, attempt>>
  /\ UNCHANGED otherVars

\* Variant of CategoryEnd: a category that had a failed page ends the
\* category loop as well.
CategoryEndStopsAfterFailure ==
  /\ \/ pc = "loop" /\ ~LoopContinues(loop)
     \/ pc = "break"
  /\ stats' = [stats EXCEPT !.categories.processed = @ + 1]
  /\ loop' = [loop EXCEPT !.i = IF \E k \in 1..Len(log[loop.i]) :
                                      log[loop.i][k].result \in {"400", "error"}
                                   THEN Len(config.categories) + 1
                                   ELSE @ + 1]
  /\ pc' = "cat"
  /\ UNCHANGED <<dbVars, proxyRotator, envVars, budget, faults, nextId, job,
                 caller, config, options, runStatus, response, log, lastSave,
                 termWrites, calls, invocations, attempt>>
  /\ UNCHANGED otherVars

\* scrape, lines 178-185: the page loop has ended (its condition is false,
\* or a break left it); the category is counted as processed.
CategoryEnd ==
  /\ \/ pc = "loop" /\ ~LoopContinues(loop)
     \/ pc = "break"
  /\ stats' = [stats EXCEPT !.categories.processed = @ + 1]
  /\ loop' = [loop EXCEPT !.i = @ + 1]
  /\ pc' = "cat"
  /\ UNCHANGED <<dbVars, proxyRotator, envVars, budget, faults, nextId, job,
                 caller, config, options, runStatus, response, log, lastSave,
                 termWrites, calls, invocations, attempt>>
  /\ UNCHANGED otherVars

(***************************************************************************)
(* makeApiRequest                                                          *)
(***************************************************************************)
\* What one attempt can meet: a response with a status, or a network error
\* with a code (status 0).
Outcomes ==
  {[status |-> st, code |-> ""] : st \in {200, 204, 400, 403, 407, 429, 500, 503}}
  \cup {[status |-> 0, code |-> c] : c \in {"ECONNRESET", "ETIMEDOUT", "ENOTFOUND"}}

\* The bodies a 200 can carry: the page of items, an object without a data
\* array, an array holding a null item, an empty (falsy) body.
BodyKinds == {"products", "noarray", "baditem", "falsy"}

\* Variant of Classify: a 429 or 407 is thrown to the caller.
ClassifyThrowsRateLimit(o) ==
  IF o.status = 200 THEN "return"
  ELSE IF o.status = 400 \/ o.status = 429 \/ o.status = 407 THEN "throw"
  ELSE IF o.status >= 500 THEN "backoff"
  ELSE IF o.code = "ECONNRESET" \/ o.code = "ETIMEDOUT" THEN "backoff"
  ELSE "throw"

\* Variant of Classify: a server or network error is retried at once.
ClassifyRetriesServerError(o) ==
  IF o.status = 200 THEN "return"
  ELSE IF o.status = 400 THEN "throw"
  ELSE IF o.status = 429 \/ o.status = 407 \/ o.status >= 500 THEN "retry"
  ELSE IF o.code = "ECONNRESET" \/ o.code = "ETIMEDOUT" THEN "retry"
  ELSE "throw"

\* Variant of Classify: an error that is neither a 400 nor one of the retried
\* ones waits and is tried again.
ClassifyRetriesOtherErrors(o) ==
  IF o.status = 200 THEN "return"
  ELSE IF o.status = 400 THEN "throw"
  ELSE IF o.status = 429 \/ o.status = 407 THEN "retry"
  ELSE "backoff"

\* makeApiRequest's handling of one attempt, lines 270-310:
\*   "return"  the body is returned (status 200)
\*   "retry"   429 / 407: the function calls itself at once
\*   "backoff" >= 500, ECONNRESET, ETIMEDOUT: it waits 1 s and calls itself
\*   "throw"   400, and everything else: the error goes to the caller
Classify(o) ==
  IF o.status = 200 THEN "return"
  ELSE IF o.status = 400 THEN "throw"
  ELSE IF o.status = 429 \/ o.status = 407 THEN "retry"
  ELSE IF o.status >= 500 THEN "backoff"
  ELSE IF o.code = "ECONNRESET" \/ o.code = "ETIMEDOUT" THEN "backoff"
  ELSE "throw"

\* Variant of getNextProxy: the rotation does not wrap to the first
\* credential but stays on the last one.
getNextProxyNoWrap(cursor) ==
  IF cursor < 0 THEN 0 ELSE Min(cursor + 1, PoolSize - 1)

\* Variant of getNextProxy: the credential at the cursor is returned and the
\* cursor is left where it is.
getNextProxyNoAdvance(cursor) == IF cursor < 0 THEN 0 ELSE cursor

\* oxylabsProxyManager.getNextProxy(): the index of the credentials the
\* rotation yields, given the index it yielded last (the first call creates
\* the generator, which starts at 0).
getNextProxy(cursor) == IF cursor < 0 THEN 0 ELSE (cursor + 1) % PoolSize

\* The body of a response: for a page of products, its items.
Body(r, c) ==
  [kind |-> r.kind,
   items |-> IF r.kind = "products" THEN PageItems(c, r.skip, r.n) ELSE <<>>]

\* The latest entry of the current category's log, with its result set.
Logged(l, c, result, n) ==
  [l EXCEPT ![c][Len(l[c])].result = result, ![c][Len(l[c])].n = n]

\* One attempt of makeApiRequest, lines 254-312.
makeApiRequest ==
  /\ pc = "fetch"
  /\ proxyRotator' = getNextProxy(proxyRotator)
  /\ calls' = Min(calls + 1, MaxCalls)
  /\ \E o \in Outcomes, kind \in BodyKinds :
       LET class == Classify(o)
           fault == class = "throw" \/ (class = "return" /\ kind # "products")
       IN /\ class # "return" => kind = "products"
          /\ fault => faults < MaxFaults
          /\ faults' = IF fault THEN faults + 1 ELSE faults
          /\ attempt' = o
          /\ IF class = "return"
               THEN /\ response' = [kind |-> kind,
                                    skip |-> loop.apiUrl,
                                    n |-> IF kind = "products"
                                            THEN PageSize(loop.i, loop.apiUrl)
                                            ELSE 0]
                    /\ log' = Logged(log, loop.i, "fetched", 0)
                    /\ pc' = "page"
             ELSE IF class = "throw"
               THEN /\ response' = NoBody
                    /\ log' = Logged(log, loop.i,
                                     IF o.status = 400 THEN "400" ELSE "error", 0)
                    /\ pc' = "pageError"
             ELSE /\ pc' = IF class = "retry" THEN "fetch" ELSE "backoff"
                  /\ UNCHANGED <<response, log>>
  /\ UNCHANGED <<dbVars, envVars, budget, nextId, job, caller, config, options,
                 runStatus, stats, loop, lastSave, termWrites, invocations>>
  /\ UNCHANGED otherVars

\* makeApiRequest, lines 298-299 and 306-307: the 1 s wait is over.
Backoff ==
  /\ pc = "backoff"
  /\ pc' = "fetch"
  /\ UNCHANGED <<dbVars, proxyRotator, envVars, budget, faults, nextId, job,
                 caller, scrapeVars, lastSave, termWrites, calls, invocations, attempt>>
  /\ UNCHANGED otherVars

(***************************************************************************)
(* scrape: one page                                                        *)
(***************************************************************************)
\* Variant of AfterPage: the loop stops after every page.
AfterPageStops(l, count) == [l EXCEPT !.hasMoreProducts = FALSE]

\* Variant of AfterPage: the loop goes on below the ceiling whatever the
\* page held.
AfterPageIgnoresCount(l, count) ==
  IF l.pageNum < l.maxPages
    THEN [l EXCEPT !.hasMoreProducts = TRUE, !.skip = @ + take, !.pageNum = @ + 1]
    ELSE [l EXCEPT !.hasMoreProducts = FALSE]

\* The loop variables after a processed page of `count` products,
\* lines 150-160.
AfterPage(l, count) ==
  IF count = take /\ l.pageNum < l.maxPages
    THEN [l EXCEPT !.hasMoreProducts = TRUE, !.skip = @ + take, !.pageNum = @ + 1]
    ELSE [l EXCEPT !.hasMoreProducts = FALSE]

\* Variant of AfterPageError: the catch does not count the page.
AfterPageErrorKeepsPage(l) == [l EXCEPT !.skip = @ + take]

\* Variant of AfterPageError: the catch counts the page but asks for the
\* same offset again.
AfterPageErrorKeepsSkip(l) ==
  [l EXCEPT !.pageNum = @ + 1,
            !.hasMoreProducts = IF l.pageNum + 1 > l.maxPages THEN FALSE ELSE @]

\* The loop variables after the page-level catch, lines 171-176.
AfterPageError(l) ==
  [l EXCEPT !.skip = @ + take,
            !.pageNum = @ + 1,
            !.hasMoreProducts = IF l.pageNum + 1 > l.maxPages THEN FALSE ELSE @]

\* scrape, lines 119-165: the response is back.  A falsy body counts a page
\* error and breaks.  Otherwise the products are extracted, saved, counted
\* and the run record updated; then the loop decides whether to go on.
PageProcess ==
  /\ pc = "page"
  /\ IF response.kind = "falsy"
       THEN /\ stats' = [stats EXCEPT !.pages.errors = @ + 1]
            /\ pc' = "break"
            /\ UNCHANGED <<dbVars, nextId, runStatus, loop, log, lastSave, faults>>
       ELSE \E pageProducts \in {extractProductsFromApi(Body(response, loop.i), loop.i)} :
            LET count == Len(pageProducts)
            IN /\ IF count > 0
                    THEN \E failBatch \in {0} \cup (IF faults < MaxFaults THEN {1} ELSE {}) :
                         \E sv \in {saveProducts(products, pageProducts, loop.i,
                                                 runStatus.id, failBatch)} :
                           LET st == [stats EXCEPT !.products.scraped = @ + count,
                                                   !.products.saved = @ + sv.saved,
                                                   !.products.duplicates = @ + sv.duplicates,
                                                   !.products.errors = @ + sv.errors]
                               u == updateRunStatus(runs, scrapers, nextId, runStatus,
                                                    StatsDocument(st, FALSE, FALSE))
                           IN /\ products' = sv.store
                              /\ stats' = [st EXCEPT !.pages.processed = @ + 1]
                              /\ runs' = u.runs
                              /\ scrapers' = u.scrapers
                              /\ nextId' = u.nextId
                              /\ runStatus' = [runStatus EXCEPT !.scraperId = u.scraperId]
                              /\ lastSave' = [runId |-> runStatus.id,
                                              committed |-> ~sv.rolledBack,
                                              txFailed |-> failBatch # 0,
                                              saved |-> sv.saved,
                                              errors |-> sv.errors,
                                              given |-> count]
                              /\ faults' = IF failBatch # 0 THEN faults + 1 ELSE faults
                    ELSE /\ stats' = [stats EXCEPT !.pages.processed = @ + 1]
                         /\ UNCHANGED <<dbVars, nextId, runStatus, lastSave, faults>>
               /\ loop' = AfterPage(loop, count)
               /\ log' = Logged(log, loop.i,
                                IF response.kind = "products" THEN "ok" ELSE "malformed",
                                count)
               /\ pc' = IF count = take /\ loop.pageNum < loop.maxPages
                          THEN "delay" ELSE "loop"
  /\ UNCHANGED <<proxyRotator, envVars, budget, job, caller, config, options,
                 response, termWrites, calls, invocations>>
  /\ attempt' = NoAttempt
  /\ UNCHANGED otherVars

\* scrape, line 156: the inter-page delay is over.
PageDelay ==
  /\ pc = "delay"
  /\ pc' = "loop"
  /\ UNCHANGED <<dbVars, proxyRotator, envVars, budget, faults, nextId, job,
                 caller, scrapeVars, lastSave, termWrites, calls, invocations, attempt>>
  /\ UNCHANGED otherVars

\* Variant of PageError: the catch also takes back what the run counted and
\* stored.
PageErrorRollsBack ==
  /\ pc = "pageError"
  /\ stats' = [stats EXCEPT !.pages.errors = @ + 1,
                            !.products = ZeroStats(0).products,
                            !.pages.processed = 0]
  /\ products' = {r \in products : r.scraperRunId # runStatus.id}
  /\ loop' = AfterPageError(loop)
  /\ pc' = "loop"
  /\ UNCHANGED <<scrapers, runs, proxyRotator, envVars, budget, faults, nextId, job,
                 caller, config, options, runStatus, response, log, lastSave,
                 termWrites, calls, invocations>>
  /\ attempt' = NoAttempt
  /\ UNCHANGED otherVars

\* scrape, lines 166-177: the page-level catch.
PageError ==
  /\ pc = "pageError"
  /\ stats' = [stats EXCEPT !.pages.errors = @ + 1]
  /\ loop' = AfterPageError(loop)
  /\ pc' = "loop"
  /\ UNCHANGED <<dbVars, proxyRotator, envVars, budget, faults, nextId, job,
                 caller, config, options, runStatus, response, log, lastSave,
                 termWrites, calls, invocations>>
  /\ attempt' = NoAttempt
  /\ UNCHANGED otherVars

(***************************************************************************)
(* scrape: the end                                                         *)
(***************************************************************************)
\* scrape, lines 194-216: every category is done; status 'completed'.
ScrapeCompleted ==
  /\ pc = "cat"
  /\ loop.i > Len(config.categories)
  /\ LET rs == [runStatus EXCEPT !.status = "completed", !.endTime = TRUE]
         u == updateRunStatus(runs, scrapers, nextId, rs,
                              StatsDocument(stats, TRUE, FALSE))
     IN /\ runs' = u.runs
        /\ scrapers' = u.scrapers
        /\ nextId' = u.nextId
        /\ runStatus' = [rs EXCEPT !.scraperId = u.scraperId]
        /\ termWrites' = IF rs.id \in DOMAIN u.runs
                           THEN Stamp(termWrites, rs.id, "completed")
                           ELSE termWrites
  /\ pc' = Return
  /\ UNCHANGED <<products, proxyRotator, envVars, budget, faults, job, caller,
                 config, options, stats, loop, response, log, lastSave, calls, invocations, attempt>>
  /\ UNCHANGED otherVars

\* scrape, lines 218-244: the outer catch; status 'error'.
ScrapeFatal ==
  /\ pc = "fatal"
  /\ LET rs == [runStatus EXCEPT !.status = "error", !.endTime = TRUE]
         u == updateRunStatus(runs, scrapers, nextId, rs,
                              StatsDocument(stats, TRUE, TRUE))
     IN /\ runs' = u.runs
        /\ scrapers' = u.scrapers
        /\ nextId' = u.nextId
        /\ runStatus' = [rs EXCEPT !.scraperId = u.scraperId]
        /\ termWrites' = IF rs.id \in DOMAIN u.runs
                           THEN Stamp(termWrites, rs.id, "error")
                           ELSE termWrites
  /\ pc' = Return
  /\ UNCHANGED <<products, proxyRotator, envVars, budget, faults, job, caller,
                 config, options, stats, loop, response, log, lastSave, calls, invocations, attempt>>
  /\ UNCHANGED otherVars

(***************************************************************************)
(* Specification                                                           *)
(***************************************************************************)
Next ==
  \/ PostRun
  \/ AddScraperJobCall
  \/ addScraperJob
  \/ AddScraperJobCompleted
  \/ AddScraperJobFailed
  \/ initialize
  \/ ScrapeCall
  \/ ScrapeBegin
  \/ ScrapeRunning
  \/ CategoryBegin
  \/ PageRequest
  \/ CategoryEnd
  \/ makeApiRequest
  \/ Backoff
  \/ PageProcess
  \/ PageDelay
  \/ PageError
  \/ ScrapeCompleted
  \/ ScrapeFatal

Spec == Init /\ [][Next]_vars

\* The event loop runs every continuation that is ready: the engine always
\* takes its next step.  Nothing is assumed about what the upstream answers.
FairSpec == Spec /\ WF_vars(Next)

TypeOK ==
  /\ pc \in {"idle", "job", "jobDone", "jobFailed", "scrape", "running", "cat",
             "loop", "fetch", "backoff", "page", "delay", "pageError", "break",
             "fatal"}
  /\ budget \in 0..MaxRuns
  /\ faults \in 0..MaxFaults
  /\ proxyRotator \in -1..(PoolSize - 1)
  /\ calls \in 0..MaxCalls
  /\ Len(invocations) <= MaxRuns

(***************************************************************************)
(* Several scrapes on the shared proxy manager                             *)
(*                                                                         *)
(* services/proxy-manager.js exports one OxylabsProxyManager; every scrape *)
(* of the process calls its getNextProxy from makeApiRequest.  Scrapes     *)
(* started by concurrent requests interleave at their awaits.              *)
(* getNextProxy has no await: the check of `initialized`, initialize() and *)
(* proxyRotator.next() run in one turn of the event loop.                  *)
(***************************************************************************)
\* What the interleaved scrapes' requests leave alone.
sharedRest == <<scrapers, runs, products, envVars, pc, budget, faults, nextId,
                job, caller, scrapeVars, lastSave, termWrites, calls,
                invocations, attempt, requests, parallel, writers, sightings>>

\* n scrapes are under way, each about to call makeApiRequest.
SharedInit ==
  /\ EngineInit
  /\ budget = 1
  /\ \E n \in 2..MaxClients :
       clients = [c \in 1..n |-> [pc |-> "call", left |-> MaxAttempts,
                                   byIndex |-> <<>>]]
  /\ handed = <<>>
  /\ requests = <<>>
  /\ parallel = NoParallel
  /\ writers = <<>>
  /\ sightings = <<>>

\* makeApiRequest, line 256, in scrape c: getNextProxy(), then the request
\* is sent and awaited.
ClientGetNextProxy(c) ==
  /\ clients[c].pc = "call"
  /\ clients[c].left > 0
  /\ proxyRotator' = getNextProxy(proxyRotator)
  /\ handed' = Append(handed, [client |-> c, credential |-> proxyRotator'])
  /\ clients' = [clients EXCEPT ![c].pc = "await", ![c].left = @ - 1]
  /\ UNCHANGED sharedRest

\* Variant of getProxyByIndex: the rotation is moved to the index asked for.
getProxyByIndexMovesCursor(cursor, index) ==
  [credential |-> index, cursor |-> index]

\* oxylabsProxyManager.getProxyByIndex(index): initialize() when the manager
\* is not initialized (a new generator, nothing drawn from it: the cursor
\* stays "nothing yielded yet"), then getProxyAgent(index, 'country-code'),
\* the agent of PROXY_CREDENTIALS[index].  The rotation is not touched.
getProxyByIndex(cursor, index) ==
  [credential |-> index, cursor |-> cursor]

\* Code of scrape c calls getProxyByIndex(index) between two requests.
ClientGetProxyByIndex(c) ==
  /\ clients[c].pc = "call"
  /\ Len(clients[c].byIndex) < MaxByIndexCalls
  /\ \E index \in 0..(PoolSize - 1) :
       LET r == getProxyByIndex(proxyRotator, index)
       IN /\ proxyRotator' = r.cursor
          /\ clients' = [clients EXCEPT ![c].byIndex =
                           Append(@, [index |-> index, credential |-> r.credential,
                                      first |-> (proxyRotator < 0)])]
  /\ UNCHANGED <<handed, sharedRest>>

\* makeApiRequest, lines 258-310, in scrape c: the awaited request settles.
\* A 429/407 calls makeApiRequest again at once, a server or network error
\* after the wait; otherwise the function returns or throws, and the scrape
\* either asks for another page or has no more requests to make.
ClientResponse(c) ==
  /\ clients[c].pc = "await"
  /\ \E o \in Outcomes, more \in BOOLEAN :
       LET class == Classify(o)
       IN /\ class \in {"retry", "backoff"} => more
          /\ clients' = [clients EXCEPT ![c].pc =
                           IF clients[c].left = 0 \/ ~more THEN "done"
                           ELSE IF class = "backoff" THEN "backoff"
                           ELSE "call"]
  /\ UNCHANGED <<proxyRotator, handed, sharedRest>>

\* makeApiRequest, lines 298 and 306, in scrape c: the 1 s wait is over.
ClientBackoff(c) ==
  /\ clients[c].pc = "backoff"
  /\ clients' = [clients EXCEPT ![c].pc = "call"]
  /\ UNCHANGED <<proxyRotator, handed, sharedRest>>

SharedNext ==
  \/ \E c \in DOMAIN clients : ClientGetNextProxy(c)
  \/ \E c \in DOMAIN clients : ClientGetProxyByIndex(c)
  \/ \E c \in DOMAIN clients : ClientResponse(c)
  \/ \E c \in DOMAIN clients : ClientBackoff(c)

SharedSpec == SharedInit /\ [][SharedNext]_vars

(***************************************************************************)
(* Concurrent saveProducts calls                                           *)
(*                                                                         *)
(* Each call runs its batch inside prisma.$transaction (one page is one    *)
(* batch).  The statements of the open transactions interleave at the      *)
(* awaits of the upserts.  The database is PostgreSQL at its default       *)
(* isolation level, with sku unique: an upsert of a sku that another open  *)
(* transaction has written waits for that transaction to end; a cycle of   *)
(* waiting transactions is broken by failing the statement of one of them, *)
(* which leaves that transaction aborted; what a transaction wrote shows   *)
(* in the table when it commits.                                           *)
(***************************************************************************)
\* The batches of the concurrent calls, as lists of skus: the same skus in
\* the same and in the opposite order, and skus no other call writes.
WriterBatches == {<<1, 2, 3>>, <<2, 1>>, <<1, 3>>, <<2, 4>>}

\* The run id under which call w saves.
WriterRunId(w) == 100 + w

\* The record call w holds for sku x: every call has sighted other values.
WriterProduct(w, x) == [sku |-> x, price |-> w, bad |-> FALSE]

\* What the concurrent saveProducts calls leave alone.
writersRest == <<scrapers, runs, proxyRotator, envVars, pc, budget, faults,
                 nextId, job, caller, scrapeVars, lastSave, termWrites, calls,
                 invocations, attempt, clients, handed, requests, parallel,
                 sightings>>

WritersInit ==
  /\ EngineInit
  /\ budget = 1
  /\ clients = <<>>
  /\ handed = <<>>
  /\ requests = <<>>
  /\ parallel = NoParallel
  /\ sightings = <<>>
  /\ \E b \in [1..MaxWriters -> WriterBatches] :
       writers = [w \in 1..MaxWriters |->
                    [batch |-> b[w], k |-> 1, state |-> "open", written |-> <<>>,
                     saved |-> 0, errors |-> 0, order |-> 0, first |-> 0,
                     last |-> 0]]

\* The skus transaction w has written and not yet committed or rolled back.
Locked(w) ==
  IF writers[w].state \in {"open", "aborted"}
    THEN {writers[w].written[j].sku : j \in 1..Len(writers[w].written)}
    ELSE {}

\* The sku of w's next statement (0: the batch is done).
NextSku(w) ==
  IF writers[w].k <= Len(writers[w].batch) THEN writers[w].batch[writers[w].k] ELSE 0

\* The transactions w's next statement has to wait for.
WaitsFor(w) ==
  IF writers[w].state = "open"
    THEN {v \in DOMAIN writers \ {w} : NextSku(w) \in Locked(v)}
    ELSE {}

RECURSIVE WaitChain(_, _)
\* The transactions reached from the set S along n more waits.
WaitChain(S, n) ==
  IF n = 0 THEN S
  ELSE WaitChain(S \cup UNION {WaitsFor(v) : v \in S}, n - 1)

\* w waits in a cycle of waiting transactions.
Deadlocked(w) == w \in WaitChain(WaitsFor(w), MaxWriters)

RECURSIVE ApplyWrites(_, _, _)
\* The table after the writes j.. of a committing transaction.
ApplyWrites(store, written, j) ==
  IF j > Len(written) THEN store
  ELSE ApplyWrites(Upsert(store, written[j]), written, j + 1)

RECURSIVE Statements(_)
\* History: the number of statements the transactions of S have sent so far.
Statements(S) ==
  IF S = {} THEN 0
  ELSE LET v == CHOOSE v \in S : TRUE
       IN (writers[v].k - 1) + Statements(S \ {v})

\* History: call w sends a statement; its place among all statements sent is
\* noted as w's first (when it is) and as w's last so far.
Sent(ws, w) ==
  LET n == Statements(DOMAIN writers) + 1
  IN [ws EXCEPT ![w].first = IF @ = 0 THEN n ELSE @, ![w].last = n]

\* saveProducts, lines 452-512, in call w: the upsert of the next record of
\* the batch is accepted.
WriterUpsert(w) ==
  /\ writers[w].state = "open"
  /\ NextSku(w) # 0
  /\ WaitsFor(w) = {}
  /\ writers' = Sent([writers EXCEPT
                        ![w].written = Append(@, ProductData(WriterProduct(w, NextSku(w)),
                                                             w, WriterRunId(w))),
                        ![w].saved = @ + 1,
                        ![w].k = @ + 1], w)
  /\ UNCHANGED <<products, writersRest>>

\* saveProducts, lines 513-516, in call w: the database fails the upsert to
\* break a cycle of waiting transactions; the catch counts an error and the
\* transaction is left aborted.
WriterDeadlock(w) ==
  /\ writers[w].state = "open"
  /\ NextSku(w) # 0
  /\ Deadlocked(w)
  /\ writers' = Sent([writers EXCEPT ![w].state = "aborted",
                                     ![w].errors = @ + 1,
                                     ![w].k = @ + 1], w)
  /\ UNCHANGED <<products, writersRest>>

\* saveProducts, lines 513-516, in call w: a statement sent on an aborted
\* transaction is refused; the catch counts an error.
WriterRefused(w) ==
  /\ writers[w].state = "aborted"
  /\ NextSku(w) # 0
  /\ writers' = Sent([writers EXCEPT ![w].errors = @ + 1, ![w].k = @ + 1], w)
  /\ UNCHANGED <<products, writersRest>>

\* prisma.$transaction, line 518, in call w: the callback has returned and
\* the transaction commits.
WriterCommit(w) ==
  /\ writers[w].state = "open"
  /\ NextSku(w) = 0
  /\ products' = ApplyWrites(products, writers[w].written, 1)
  /\ writers' = [writers EXCEPT
                   ![w].state = "committed",
                   ![w].order = 1 + Cardinality({v \in DOMAIN writers :
                                                   writers[v].state = "committed"})]
  /\ UNCHANGED writersRest

\* prisma.$transaction, line 518, in call w: the commit of an aborted
\* transaction rolls it back.
WriterRollback(w) ==
  /\ writers[w].state = "aborted"
  /\ NextSku(w) = 0
  /\ writers' = [writers EXCEPT ![w].state = "rolledBack"]
  /\ UNCHANGED <<products, writersRest>>

WritersNext ==
  \/ \E w \in DOMAIN writers : WriterUpsert(w)
  \/ \E w \in DOMAIN writers : WriterDeadlock(w)
  \/ \E w \in DOMAIN writers : WriterRefused(w)
  \/ \E w \in DOMAIN writers : WriterCommit(w)
  \/ \E w \in DOMAIN writers : WriterRollback(w)

WritersSpec == WritersInit /\ [][WritersNext]_vars

(***************************************************************************)
(* utils/proxyRequest.js: makeProxyRequest and makeParallelProxyRequests    *)
(*                                                                         *)
(* A call of makeProxyRequest is a record: the loop variable `attempt`,    *)
(* the index its own rotator yielded last, lastError, and where the call   *)
(* stands ("await": the request is out; "wait": the retry delay runs;      *)
(* "resolved" / "rejected").  A url is its index in the list.  The body of *)
(* a successful attempt is named by url and attempt number.                *)
(***************************************************************************)
\* What the calls of proxyRequest.js leave alone.
proxyRest == <<scrapers, runs, products, proxyRotator, envVars, pc, budget, faults,
               nextId, job, caller, scrapeVars, lastSave, termWrites, calls,
               invocations, attempt, clients, handed, writers, sightings>>

\* rotateProxies(): the index the generator yields, given the one it yielded
\* last (-1: none yet).
rotateProxiesNext(last) == IF last < 0 THEN 0 ELSE (last + 1) % PoolSize

\* What one attempt of makeProxyRequest can meet: a response with a status,
\* or a network error with a code (status 0).
ProxyOutcomes ==
  {[status |-> st, code |-> ""] : st \in {200, 204, 404, 407, 429, 500}}
  \cup {[status |-> 0, code |-> c] : c \in {"ETIMEDOUT", "ENOTFOUND"}}

\* makeProxyRequest's handling of one attempt, lines 25-55: a 2xx resolves
\* ("return"); 429 / 407 continue at once ("retry"); >= 500, ECONNRESET and
\* ETIMEDOUT continue after the delay ("wait"); everything else is thrown.
ProxyClassify(o) ==
  IF o.status >= 200 /\ o.status < 300 THEN "return"
  ELSE IF o.status = 429 \/ o.status = 407 THEN "retry"
  ELSE IF o.status >= 500 THEN "wait"
  ELSE IF o.code = "ECONNRESET" \/ o.code = "ETIMEDOUT" THEN "wait"
  ELSE "throw"

\* Variant of NextAttempt: the loop allows one attempt more than maxRetries.
NextAttemptOneMore(rec) ==
  IF rec.attempt <= rec.maxRetries
    THEN [rec EXCEPT !.state = "await",
                     !.rotator = rotateProxiesNext(@),
                     !.used = Append(@, rotateProxiesNext(rec.rotator))]
    ELSE [rec EXCEPT !.state = "rejected", !.thrown = rec.lastError]

\* makeProxyRequest, lines 16-26 and 59: the loop condition; then either
\* the next credential is taken and the request sent, or lastError is
\* thrown.
NextAttempt(rec) ==
  IF rec.attempt < rec.maxRetries
    THEN [rec EXCEPT !.state = "await",
                     !.rotator = rotateProxiesNext(@),
                     !.used = Append(@, rotateProxiesNext(rec.rotator))]
    ELSE [rec EXCEPT !.state = "rejected", !.thrown = rec.lastError]

\* makeProxyRequest(url, options, maxRetries) up to its first await.
StartRequest(url, maxRetries) ==
  NextAttempt([url |-> url, maxRetries |-> maxRetries, attempt |-> 0,
               rotator |-> -1, used |-> <<>>, lastError |-> NoAttempt,
               last |-> NoAttempt, succeeded |-> 0, thrown |-> NoAttempt,
               data |-> [url |-> 0, attempt |-> 0], state |-> "start"])

\* Either makeProxyRequest is called with some maxRetries, or
\* makeParallelProxyRequests with a list of urls and a concurrency.
ProxyInit ==
  /\ EngineInit
  /\ budget = 1
  /\ clients = <<>>
  /\ handed = <<>>
  /\ writers = <<>>
  /\ sightings = <<>>
  /\ \/ /\ \E m \in 0..MaxRetriesArg : requests = (1 :> StartRequest(1, m))
        /\ parallel = NoParallel
     \/ /\ requests = <<>>
        /\ \E n \in 0..MaxUrls, c \in 1..MaxConcurrency :
             parallel = [state |-> "loop", urls |-> n, concurrency |-> c, i |-> 0,
                         results |-> <<>>, errors |-> <<>>]

\* makeProxyRequest, lines 21-55: the request of call u settles.
ProxySettle(u) ==
  /\ requests[u].state = "await"
  /\ \E o \in ProxyOutcomes :
       LET class == ProxyClassify(o)
           rec == [requests[u] EXCEPT
                     !.last = o,
                     !.succeeded = IF class = "return" THEN @ + 1 ELSE @,
                     !.lastError = IF class = "return" THEN @ ELSE o]
       IN requests' = [requests EXCEPT ![u] =
            IF class = "return"
              THEN [rec EXCEPT !.state = "resolved",
                               !.data = [url |-> u, attempt |-> Len(rec.used)]]
            ELSE IF class = "retry"
              THEN NextAttempt([rec EXCEPT !.attempt = @ + 1])
            ELSE IF class = "wait"
              THEN [rec EXCEPT !.state = "wait"]
              ELSE [rec EXCEPT !.state = "rejected", !.thrown = o]]
  /\ UNCHANGED <<parallel, proxyRest>>

\* makeProxyRequest, lines 43-44 and 50-51: the retry delay of call u is
\* over; continue.
ProxyWait(u) ==
  /\ requests[u].state = "wait"
  /\ requests' = [requests EXCEPT ![u] =
                    NextAttempt([requests[u] EXCEPT !.attempt = @ + 1])]
  /\ UNCHANGED <<parallel, proxyRest>>

\* Variant of Batch: the slice has no end, the batch is the rest of the list.
BatchRestOfList(par) == (par.i + 1)..par.urls

\* The urls of the batch that starts at offset i.
Batch(par) == (par.i + 1)..Min(par.i + par.concurrency, par.urls)

\* makeParallelProxyRequests, lines 73-79: the loop condition holds; every
\* url of the batch gets its makeProxyRequest call (default maxRetries).
ParallelBatch ==
  /\ parallel.state = "loop"
  /\ parallel.i < parallel.urls
  /\ requests' = [u \in DOMAIN requests \cup Batch(parallel) |->
                    IF u \in Batch(parallel)
                      THEN StartRequest(u, DefaultProxyRetries)
                      ELSE requests[u]]
  /\ parallel' = [parallel EXCEPT !.state = "await"]
  /\ UNCHANGED proxyRest

RECURSIVE Settled(_, _, _, _)
\* batchResults.forEach, lines 83-89, over the urls u..hi: the data of the
\* calls that ended in `state`, in the order of the batch.
Settled(reqs, u, hi, state) ==
  IF u > hi THEN <<>>
  ELSE (IF reqs[u].state = state
          THEN <<IF state = "resolved" THEN reqs[u].data ELSE [url |-> u, attempt |-> 0]>>
          ELSE <<>>)
       \o Settled(reqs, u + 1, hi, state)

\* Variant of ParallelCollect: a call of the batch that rejected rejects the
\* whole (Promise.all over the bare calls).
ParallelCollectFailsFast ==
  /\ parallel.state = "await"
  /\ \A u \in Batch(parallel) : requests[u].state \in {"resolved", "rejected"}
  /\ LET hi == Min(parallel.i + parallel.concurrency, parallel.urls)
     IN parallel' =
          IF \E u \in Batch(parallel) : requests[u].state = "rejected"
            THEN [parallel EXCEPT !.state = "rejected"]
            ELSE [parallel EXCEPT
                    !.results = @ \o Settled(requests, parallel.i + 1, hi, "resolved"),
                    !.i = @ + parallel.concurrency,
                    !.state = IF parallel.i + parallel.concurrency < parallel.urls
                                THEN "delay" ELSE "loop"]
  /\ UNCHANGED <<requests, proxyRest>>

\* makeParallelProxyRequests, lines 81-94: every call of the batch has
\* settled (none of the promises rejects: each has its catch); the data of
\* the resolved ones go to results, the others to errors; then the delay,
\* unless this was the last batch.
ParallelCollect ==
  /\ parallel.state = "await"
  /\ \A u \in Batch(parallel) : requests[u].state \in {"resolved", "rejected"}
  /\ LET hi == Min(parallel.i + parallel.concurrency, parallel.urls)
     IN parallel' = [parallel EXCEPT
          !.results = @ \o Settled(requests, parallel.i + 1, hi, "resolved"),
          !.errors = @ \o Settled(requests, parallel.i + 1, hi, "rejected"),
          !.i = @ + parallel.concurrency,
          !.state = IF parallel.i + parallel.concurrency < parallel.urls
                      THEN "delay" ELSE "loop"]
  /\ UNCHANGED <<requests, proxyRest>>

\* makeParallelProxyRequests, line 93: the delay between batches is over.
ParallelDelay ==
  /\ parallel.state = "delay"
  /\ parallel' = [parallel EXCEPT !.state = "loop"]
  /\ UNCHANGED <<requests, proxyRest>>

\* makeParallelProxyRequests, lines 97-101: the loop has ended; results is
\* returned.
ParallelReturn ==
  /\ parallel.state = "loop"
  /\ parallel.i >= parallel.urls
  /\ parallel' = [parallel EXCEPT !.state = "done"]
  /\ UNCHANGED <<requests, proxyRest>>

ProxyNext ==
  \/ \E u \in DOMAIN requests : ProxySettle(u)
  \/ \E u \in DOMAIN requests : ProxyWait(u)
  \/ ParallelBatch
  \/ ParallelCollect
  \/ ParallelDelay
  \/ ParallelReturn

ProxySpec == ProxyInit /\ [][ProxyNext]_vars

\* The event loop runs every continuation that is ready, and every request
\* and timer settles.
ProxyFairSpec == ProxySpec /\ WF_vars(ProxyNext)

(***************************************************************************)
(* Pages of arbitrary upstream items                                       *)
(*                                                                         *)
(* extractProductsFromApi and saveProducts take whatever items the         *)
(* upstream sends.  The engine's catalog gives every item a number and an  *)
(* id; here the items of a page are drawn with and without a number and    *)
(* with and without an id, and the pages go through lines 126-134 of       *)
(* scrape one after another.                                               *)
(***************************************************************************)
\* The items the upstream may send: number and id each there or not (0),
\* two prices, no embedded strings.
UpstreamItems ==
  {[number |-> n, id |-> i, price |-> p, bad |-> FALSE,
    salvageSourceVehicle |-> "absent", fitments |-> "absent",
    fitmentJson |-> "absent"] : n \in {0, 1}, i \in {0, 1001}, p \in 1..2}

\* What the persisting of such pages leaves alone.
storeRest == <<scrapers, runs, proxyRotator, envVars, pc, budget, faults, nextId,
               job, caller, scrapeVars, termWrites, calls, invocations, attempt,
               clients, handed, requests, parallel, writers>>

StoreInit ==
  /\ EngineInit
  /\ budget = 1
  /\ clients = <<>>
  /\ handed = <<>>
  /\ requests = <<>>
  /\ parallel = NoParallel
  /\ writers = <<>>
  /\ sightings = <<>>

\* scrape, lines 126-134: a page of items is extracted and handed to
\* saveProducts (category 1, run 1), every transaction committing.
PersistPage ==
  /\ \E n \in 1..MaxPageLen : \E items \in [1..n -> UpstreamItems] :
       /\ Len(sightings) + n <= MaxSightings
       /\ \E pageProducts \in
              {extractProductsFromApi([kind |-> "products", items |-> items], 1)} :
          \E sv \in {saveProducts(products, pageProducts, 1, 1, 0)} :
            /\ products' = sv.store
            /\ lastSave' = [runId |-> 1, committed |-> TRUE, txFailed |-> FALSE,
                            saved |-> sv.saved, errors |-> sv.errors,
                            given |-> Len(pageProducts)]
            /\ sightings' = sightings \o items
  /\ UNCHANGED storeRest

StoreNext == PersistPage

StoreSpec == StoreInit /\ [][StoreNext]_vars

(***************************************************************************)
(* Properties                                                              *)
(***************************************************************************)
\* scrape has returned, and no later invocation has replaced its config.
Finished == runStatus.status \in Terminal /\ pc # "scrape"

\* A step of PageProcess that hands a non-empty page to saveProducts, the
\* transaction committing.
CommittedSave ==
  /\ pc = "page"
  /\ response.kind = "products"
  /\ response.n > 0
  /\ lastSave'.committed

\* C1 (part): the product store never holds two rows with the same sku.
UniqueSku == \A r1, r2 \in products : r1.sku = r2.sku => r1 = r2

\* C1: for every sku the product store holds at most one row, and after a
\* saveProducts call that upserts a record for a sku (same run or another
\* run, the row present or not) that single row carries the field values and
\* the scraperRunId of that call.
C1_UpsertLeavesOneLatestRow ==
  /\ []UniqueSku
  /\ [][CommittedSave =>
          \A k \in 1..response.n :
            LET p == ExtractProduct(Item(loop.i, response.skip + k), loop.i)
            IN ~p.bad =>
                 /\ Cardinality({r \in products' : r.sku = p.sku}) = 1
                 /\ \E r \in products' :
                      /\ r.sku = p.sku
                      /\ r.price = p.price
                      /\ r.categoryUrl = loop.i
                      /\ r.scraperRunId = runStatus.id]_vars

\* C1, its case: a committed call of a second run has overwritten a row
\* that an earlier run stored with other field values.
C1_Witness ==
  /\ lastSave.committed
  /\ Cardinality(DOMAIN runs) >= 2
  /\ \E r \in products :
       /\ r.updated
       /\ r.price = 2
       /\ r.scraperRunId = lastSave.runId
       /\ r.scraperRunId = runStatus.id

\* C2: with a configured maxPages >= 1, the number of page iterations of a
\* category (calls from the loop into makeApiRequest) never exceeds maxPages,
\* whatever the upstream answers.
C2_IterationsWithinMaxPages ==
  (pc # "scrape" /\ config.maxPages >= 1) =>
     \A c \in DOMAIN log : Len(log[c]) <= config.maxPages

\* C2, its case: the ceiling has cut a category short after a full page, or
\* after a failed one.
C2_Witness ==
  /\ pc = "cat"
  /\ config.maxPages >= 2
  /\ \E c \in DOMAIN log :
       /\ Len(log[c]) = config.maxPages
       /\ \/ log[c][Len(log[c])].result = "ok" /\ log[c][Len(log[c])].n = take
          \/ log[c][Len(log[c])].result = "400"

\* C3: the pagination loop of every category eventually terminates, whatever
\* the upstream answers (429, 407, 5xx, connection reset or timeout included):
\* a request that is out is followed by the end of its category.
C3_PaginationTerminates == (pc = "fetch") ~> (pc = "cat")

\* The statuses in the order pending -> running/processing -> terminal.
Rank(status) ==
  IF status = "pending" THEN 0
  ELSE IF status \in Terminal THEN 2
  ELSE 1

\* C4: a run record's status only moves forward along
\* pending -> running/processing -> {completed, failed, error}, and no writer
\* changes the status of a record that is completed, failed or error, also
\* when scrape is invoked with the id of an existing run.
C4_StatusOnlyForward ==
  [][\A id \in DOMAIN runs :
       /\ Rank(runs'[id].status) >= Rank(runs[id].status)
       /\ runs[id].status \in Terminal => runs'[id].status = runs[id].status]_vars

\* C5: every run that is started eventually reaches a terminal status, and a
\* terminal status is written to its run record exactly once.
C5_TerminalExactlyOnce ==
  /\ (pc = "running") ~> (runStatus.status \in Terminal)
  /\ [](\A id \in DOMAIN termWrites : termWrites[id] <= 1)

\* C6: when the fetch of page k of a category fails with HTTP 400, no request
\* for a later page of that category is issued.
C6_BadRequestAbortsCategory ==
  \A c \in DOMAIN log :
    \A k \in 1..Len(log[c]) : log[c][k].result = "400" => Len(log[c]) = k

\* A step of a page iteration that ends in the page-level catch or is still
\* waiting for the fetch client.
FailingIterationStep ==
  /\ pc \in {"fetch", "backoff", "pageError"}
  /\ pc' \in {"fetch", "backoff", "pageError", "loop"}

C8_FirstPageBadRequest ==
  (Finished /\ Len(config.categories) = 1 /\ Len(log[1]) >= 1
     /\ log[1][1].result = "400") =>
     /\ runStatus.status = "completed"
     /\ stats.categories.processed = 1
     /\ stats.categories.errors >= 1
     /\ stats.products.saved = 0
     /\ stats.pages.errors = 1

\* A finished run of one category in which every fetch returned a page of
\* the catalog and every record was stored.
CleanSingleCategoryRun ==
  /\ Finished
  /\ Len(config.categories) = 1
  /\ \A k \in 1..Len(log[1]) : log[1][k].result = "ok"
  /\ poison = 0
  /\ stats.products.errors = 0
  /\ inventory[1] < take * EffectiveMaxPages(config)

\* C9: for a single category whose upstream holds M items with distinct SKUs
\* (M < 50 * maxPages), with no fetch errors and no per-record errors, the run
\* performs floor(M/50) + 1 page fetches at skip = 0, 50, 100, ..., stops
\* after the first page shorter than 50, and ends with
\* products.scraped = products.saved = M.
C9_PagesAndTotals ==
  CleanSingleCategoryRun =>
    LET M == inventory[1]
        n == Len(log[1])
    IN /\ n = (M \div take) + 1
       /\ \A k \in 1..n : log[1][k].skip = take * (k - 1)
       /\ \A k \in 1..(n - 1) : log[1][k].n = take
       /\ log[1][n].n = M % take
       /\ stats.products.scraped = M
       /\ stats.products.saved = M
       /\ stats.pages.processed = n
       /\ runStatus.status = "completed"

\* C9, its case: the largest inventory under the default ceiling of 10 pages
\* (120 items: pages of 50, 50 and 20).
C9_Witness ==
  /\ CleanSingleCategoryRun
  /\ config.maxPages = 0
  /\ inventory[1] = MaxItems
  /\ Len(log[1]) = 3
  /\ log[1][3].n = MaxItems - 2 * take
  /\ stats.products.saved = MaxItems

\* C10: a category whose first page returns fewer than take = 50 records
\* (zero included) causes exactly one call of the fetch client for that
\* category.
C10_ShortFirstPageOneFetch ==
  \A c \in DOMAIN log :
    (Len(log[c]) >= 1 /\ log[c][1].result = "ok" /\ log[c][1].n < take) =>
       Len(log[c]) = 1

\* C10, its case: a category ended after one short first page although the
\* ceiling allowed more, and one after an empty first page.
C10_Witness ==
  /\ pc = "cat"
  /\ loop.maxPages >= 2
  /\ Len(config.categories) = 2
  /\ loop.i = 3
  /\ log[1][1].result = "ok" /\ log[1][1].n = 0 /\ Len(log[1]) = 1
  /\ log[2][1].result = "ok" /\ log[2][1].n \in 1..(take - 1) /\ Len(log[2]) = 1

\* C11: with a pool of N credentials the k-th getNextProxy call on a fresh
\* rotator returns credential (k - 1) mod N: N consecutive calls return each
\* credential once in pool order and the (N + 1)-th returns the first again.
C11_RoundRobin ==
  /\ calls = 0 => proxyRotator = -1
  /\ (calls >= 1 /\ calls < MaxCalls) => proxyRotator = (calls - 1) % PoolSize

\* C11, its case: the (N + 1)-th call has returned the first credential.
C11_Witness == calls = PoolSize + 1 /\ calls < MaxCalls /\ proxyRotator = 0

\* A trigger invocation (POST /run or addScraperJob -> runScraper -> scrape)
\* has finished: addScraperJob has written `completed` to the run record
\* whose id the caller holds, and nothing was invoked since.
TriggerFinished ==
  /\ pc = "idle"
  /\ caller = "job"
  /\ Finished
  /\ Len(invocations) >= 1
  /\ invocations[Len(invocations)] \in {"POST /run", "addScraperJob"}
  /\ job.runId \in DOMAIN runs
  /\ runs[job.runId].status = "completed"

\* C12: after a trigger invocation has finished, the run record whose id was
\* returned to the caller is the record the engine mutated, and its
\* statistics document has the counters categories, products and pages at
\* its top level, equal to the engine's final counters.
C12_ReturnedRunCarriesCounters ==
  TriggerFinished =>
    /\ runStatus.id = job.runId
    /\ runs[job.runId].statistics.doc = "stats"
    /\ runs[job.runId].statistics.stats = stats

\* C13: every product row written during a trigger invocation has its
\* scraperRunId equal to the id of the run created for that invocation and
\* returned to its caller.
C13_RowsReferToReturnedRun ==
  [][(pc = "page" /\ caller = "job") =>
       \A r \in products' \ products : r.scraperRunId = job.runId]_vars

\* C14: each trigger invocation creates exactly one run record: when only
\* POST /run was invoked, the number of run records equals the number of
\* invocations; and no run record is ever deleted.
C14_OneRunPerInvocation ==
  /\ [][DOMAIN runs \subseteq DOMAIN runs']_vars
  /\ []((pc = "idle" /\ \A k \in 1..Len(invocations) : invocations[k] = "POST /run")
          => Cardinality(DOMAIN runs) = Len(invocations))

\* An invocation of scrape (direct, or through the trigger) has ended in the
\* outer catch, and nothing was invoked since.
FatalInvocationDone ==
  /\ pc = "idle"
  /\ Finished
  /\ runStatus.status = "error"
  /\ Len(invocations) >= 1
  /\ invocations[Len(invocations)] # "initialize"

\* The run record of the invocation: the one the trigger was given, or the
\* one a direct call of scrape works on.
InvocationRun == IF caller = "job" THEN job.runId ELSE runStatus.id

\* C15: when an exception escapes the category loop, scrape returns a result
\* with status 'error' instead of throwing, and the run record of the
\* invocation ends failed or error (never completed) with completedAt set,
\* the error attached and the statistics gathered up to the failure.
C15_FatalEndsInError ==
  FatalInvocationDone =>
    /\ InvocationRun \in DOMAIN runs
    /\ runs[InvocationRun].status \in {"failed", "error"}
    /\ runs[InvocationRun].completedAt
    /\ runs[InvocationRun].error \/ runs[InvocationRun].statistics.error
    /\ runs[InvocationRun].statistics.stats = stats

\* C16: in every reachable state the status stored in a run record is one of
\* pending, running, processing, completed, failed, error.
C16_StoredStatusInEnumeration ==
  \A id \in DOMAIN runs :
    runs[id].status \in {"pending", "running", "processing", "completed", "failed",
                         "error"}

\* A step of PageProcess that saves a page holding the record whose upsert
\* fails, no transaction being rejected as a whole.
OneUpsertFails ==
  /\ pc = "page"
  /\ response.kind = "products"
  /\ poison \in (response.skip + 1)..(response.skip + response.n)
  /\ ~lastSave'.txFailed

\* C17: when the upsert of one record of a batch fails, saveProducts counts
\* exactly one error for it, the other records of the batch are stored and
\* counted as saved, and neither the batch nor the run is aborted.
C17_OneBadRecordOneError ==
  [][OneUpsertFails =>
       /\ lastSave'.errors = 1
       /\ lastSave'.saved = response.n - 1
       /\ \A k \in 1..response.n :
            (response.skip + k # poison) =>
               \E r \in products' :
                 /\ r.sku = ItemSku(Item(loop.i, response.skip + k))
                 /\ r.scraperRunId = runStatus.id
                 /\ r.categoryUrl = loop.i
       /\ pc' \in {"loop", "delay"}]_vars

\* The rows of the product table without their update timestamp.
Strip(store) ==
  {[sku |-> r.sku, price |-> r.price, categoryUrl |-> r.categoryUrl,
    scraperRunId |-> r.scraperRunId] : r \in store}

\* A step of PageProcess that hands saveProducts a record set which the
\* table already holds, record for record, with the same values and the
\* same run id: the set is persisted a second time.
Repersist ==
  /\ pc = "page"
  /\ response.kind = "products"
  /\ response.n > 0
  /\ \A k \in 1..response.n :
       ProductData(ExtractProduct(Item(loop.i, response.skip + k), loop.i),
                   loop.i, runStatus.id) \in Strip(products)

\* C18: saveProducts is idempotent on the store: persisting the same record
\* set with the same runId a second time leaves the set of product rows and
\* their field values, the update timestamp apart, as after the first call.
C18_SaveIsIdempotent ==
  [][Repersist => Strip(products') = Strip(products)]_vars

\* C18, its case: a run was resumed under its own id and has stored again,
\* over its own rows, the records it stored the first time.
C18_Witness ==
  /\ invocations = <<"scrape", "scrape">>
  /\ options.runId # 0
  /\ lastSave.runId = options.runId
  /\ lastSave.committed
  /\ lastSave.saved >= 2
  /\ products # {}
  /\ \A r \in products : r.updated /\ r.scraperRunId = lastSave.runId

\* The attempt was answered with HTTP 429 or 407.
RateLimited(a) == a.status = 429 \/ a.status = 407

\* The attempt was answered with a status >= 500, or failed with a
\* connection reset or a timeout.
ServerOrNetworkError(a) ==
  a.status >= 500 \/ a.code = "ECONNRESET" \/ a.code = "ETIMEDOUT"

\* The credential after credential i in the pool's order.
NextCredential(i) == IF i = PoolSize - 1 THEN 0 ELSE i + 1

\* C19: an attempt answered with HTTP 429 or 407 is followed at once (no
\* wait) by an attempt at the same URL through the next credential of the
\* rotator, however many attempts came before; the outcome is never returned
\* or thrown to the paginator.
C19_RateLimitRetriesAtOnce ==
  /\ [](pc \in {"page", "pageError", "backoff"} => ~RateLimited(attempt))
  /\ [][(pc = "fetch" /\ RateLimited(attempt')) =>
          /\ pc' = "fetch"
          /\ loop' = loop
          /\ stats' = stats
          /\ log' = log]_vars
  /\ [][(pc = "fetch" /\ RateLimited(attempt)) =>
          /\ loop'.apiUrl = loop.apiUrl
          /\ proxyRotator' = NextCredential(proxyRotator)]_vars

\* C19, its case: the fifth attempt in a row at a category's first request
\* has been answered 429 or 407 and the client is about to try again.
C19_Witness ==
  /\ pc = "fetch"
  /\ RateLimited(attempt)
  /\ Len(invocations) = 1
  /\ loop.i = 1
  /\ Len(log[1]) = 1
  /\ calls = MaxCalls

NotRetried(a) ==
  /\ a # NoAttempt
  /\ a.status # 200
  /\ ~RateLimited(a)
  /\ ~ServerOrNetworkError(a)

\* C21: an attempt answered with HTTP 400, or failed with an error other than
\* 429, 407, >= 500, connection reset or timeout, hands its error to the
\* caller after that one attempt: the page-level catch runs next, and no
\* further attempt is made for the request.
C21_OtherErrorsPropagateUnretried ==
  /\ [](pc \in {"fetch", "backoff", "page"} => ~NotRetried(attempt))
  /\ [][(pc = "fetch" /\ NotRetried(attempt')) =>
          /\ pc' = "pageError"
          /\ loop' = loop
          /\ stats' = stats]_vars
  /\ [][pc = "pageError" =>
          /\ pc' = "loop"
          /\ proxyRotator' = proxyRotator
          /\ calls' = calls]_vars

\* C21, its case: the first attempt of a request was answered with a 2xx
\* status other than 200 and the error has reached the page-level catch.
C21_Witness ==
  /\ pc = "pageError"
  /\ attempt.status = 204
  /\ calls = 1
  /\ Len(log[1]) = 1

\* C22: the page-level catch adds exactly one to pages.errors, moves the
\* offset one page on and leaves the loop running while the ceiling allows;
\* and in every case the i-th iteration of a category asks for offset
\* take * (i - 1), whether the earlier iterations succeeded or failed.
C22_PageErrorAdvancesOffset ==
  /\ [](\A c \in DOMAIN log : \A i \in 1..Len(log[c]) :
          log[c][i].skip = take * (i - 1))
  /\ [][pc = "pageError" =>
          /\ stats'.pages.errors = stats.pages.errors + 1
          /\ stats'.pages.processed = stats.pages.processed
          /\ loop'.skip = loop.skip + take
          /\ pc' = "loop"
          /\ LoopContinues(loop') <=> loop.pageNum < loop.maxPages]_vars

\* C22, its case: the first iteration of a category failed, and the second
\* one has asked for the second page.
C22_Witness ==
  /\ pc = "fetch"
  /\ stats.pages.errors = 1
  /\ Len(log[loop.i]) = 2
  /\ log[loop.i][1].result = "error"
  /\ log[loop.i][2].skip = take

\* A 200 whose body extractProductsFromApi cannot read: no product array, or
\* an item on which the extraction throws.
ExtractionFails(r) == r.kind = "noarray" \/ r.kind = "baditem"

\* C23: when a response fetched with HTTP 200 cannot be extracted (no product
\* array, or a malformed item), the fault is counted (pages.errors goes up by
\* one) and pagination goes on to the next page while the ceiling allows.
C23_ExtractionFaultCountedAndSkipped ==
  [][(pc = "page" /\ ExtractionFails(response)) =>
       /\ stats'.pages.errors = stats.pages.errors + 1
       /\ loop'.skip = loop.skip + take
       /\ loop.pageNum < loop.maxPages => LoopContinues(loop')]_vars

\* C24: a failure in one category (page errors, HTTP 400) does not keep the
\* later categories from being processed.  The end of a category's page loop
\* leads to the next category; a request for a category is issued only when
\* every earlier category has been attempted and no later one has; and in
\* every run that reaches completed every configured category was attempted
\* and categories.processed + categories.errors = categories.total.
C24_LaterCategoriesStillProcessed ==
  /\ []((runStatus.status = "completed" /\ pc # "scrape") =>
          /\ stats.categories.total = Len(config.categories)
          /\ stats.categories.processed + stats.categories.errors
                = stats.categories.total
          /\ \A c \in 1..Len(config.categories) : Len(log[c]) >= 1)
  /\ [][(pc = "loop" /\ pc' = "fetch") =>
          /\ \A c \in 1..(loop.i - 1) : Len(log'[c]) >= 1
          /\ \A c \in (loop.i + 1)..Len(config.categories) : Len(log'[c]) = 0]_vars
  /\ [][((pc = "loop" /\ pc' # "fetch") \/ pc = "break") =>
          /\ pc' = "cat"
          /\ loop'.i = loop.i + 1]_vars

\* C24, its case: a run of two categories has completed; the first page of
\* the first category was refused with HTTP 400, and the second category was
\* requested and processed all the same.
C24_Witness ==
  /\ runStatus.status = "completed"
  /\ pc # "scrape"
  /\ Len(config.categories) = 2
  /\ log[1][1].result = "400"
  /\ Len(log[2]) >= 1
  /\ log[2][1].result = "ok"
  /\ stats.pages.errors = 1
  /\ stats.categories.processed = 2

\* A page of the running scrape has just completed (processed, or failed in
\* the page-level catch), or a category has.
ProgressEvent ==
  \/ pc \in {"page", "pageError"} /\ pc' \in {"loop", "delay", "break"}
  \/ pc \in {"loop", "break"} /\ pc' = "cat"

\* C25: after each page completes (processed or failed) and after each
\* category completes, the statistics document persisted on the run record
\* equals the engine's in-memory counters at that moment.
C25_ProgressPersisted ==
  [][ProgressEvent =>
       /\ runStatus'.id \in DOMAIN runs'
       /\ runs'[runStatus'.id].statistics.doc = "stats"
       /\ runs'[runStatus'.id].statistics.stats = stats']_vars

\* scrape's first updateRunStatus call is about to run with no scraper
\* reference, no 'lkq' scraper in the table, and no record of the run yet.
UnresolvedScraper ==
  /\ pc = "scrape"
  /\ options.scraperId = 0
  /\ LkqScraper(scrapers) = {}
  /\ options.runId = 0

\* C26: when no scraper reference is supplied and no 'lkq' scraper is found,
\* updateRunStatus creates a placeholder scraper and the run record is still
\* created, attached to that placeholder; and every run record refers to a
\* scraper that exists.
C26_PlaceholderScraperKeepsRun ==
  /\ [](\A id \in DOMAIN runs : \E s \in scrapers : s.id = runs[id].scraperId)
  /\ [][UnresolvedScraper =>
          \E s \in scrapers' \ scrapers :
            /\ scrapers' = scrapers \cup {s}
            /\ runStatus'.scraperId = s.id
            /\ DOMAIN runs' = DOMAIN runs \cup {runStatus'.id}
            /\ runStatus'.id \notin DOMAIN runs
            /\ runs'[runStatus'.id].scraperId = s.id
            /\ runs'[runStatus'.id].status = runStatus'.status]_vars

\* C26, its case: a scrape called on an empty scraper table is running, its
\* run record attached to the placeholder scraper created for it.
C26_Witness ==
  /\ pc = "running"
  /\ LkqScraper(scrapers) = {}
  /\ Cardinality(scrapers) = 1
  /\ runStatus.id \in DOMAIN runs
  /\ \E s \in scrapers : runs[runStatus.id].scraperId = s.id /\ s.name = "dummy"

\* C27: with several scrapes interleaved on the shared proxy manager the
\* rotation cursor is never corrupted.  Every getNextProxy call returns the
\* credential at the cursor and moves the cursor on by exactly one, so the
\* k-th call overall, whoever makes it, gets credential (k - 1) mod PoolSize,
\* and no credential is handed out twice in a row.
C27_SharedCursorNotCorrupted ==
  /\ [](\A k \in 1..Len(handed) : handed[k].credential = (k - 1) % PoolSize)
  /\ [](\A k \in 1..(Len(handed) - 1) :
          handed[k + 1].credential # handed[k].credential)
  /\ [][handed' # handed =>
          /\ Len(handed') = Len(handed) + 1
          /\ handed'[Len(handed')].credential = proxyRotator'
          /\ proxyRotator' = (IF proxyRotator < 0 THEN 0
                               ELSE NextCredential(proxyRotator))]_vars
  /\ [][handed' = handed => proxyRotator' = proxyRotator]_vars

\* C27, its case: two scrapes have called getNextProxy in turn, twice each,
\* and the fourth call has wrapped round to the first credential.
C27_Witness ==
  /\ Len(handed) = 4
  /\ handed[1].client = 1
  /\ handed[2].client = 2
  /\ handed[3].client = 1
  /\ handed[4].client = 2
  /\ handed[4].credential = 0
  /\ clients[1].pc = "await"
  /\ clients[2].pc = "await"

\* Every concurrent saveProducts call has ended its transaction.
AllWritersDone ==
  \A w \in DOMAIN writers : writers[w].state \in {"committed", "rolledBack"}

\* The skus of call w's batch.
BatchSkus(w) == {writers[w].batch[j] : j \in 1..Len(writers[w].batch)}

\* The calls that wrote sku x and committed.
Committers(x) ==
  {w \in DOMAIN writers : writers[w].state = "committed" /\ x \in BatchSkus(w)}

\* Every field of row r, the run back-reference included, is call w's.
FromWriter(r, w) ==
  /\ r.price = w
  /\ r.categoryUrl = w
  /\ r.scraperRunId = WriterRunId(w)

\* C28: when saveProducts calls write the same sku with different values in
\* interleaved transactions, the table never holds two rows for a sku and
\* every row carries the fields and the run back-reference of one single
\* call that committed; once all calls have ended, the row of a sku is that of
\* the call that committed last among those that wrote it; and a commit
\* leaves the rows of the skus it did not write as they were.
C28_ConcurrentWritersLastWriteWins ==
  /\ []UniqueSku
  /\ [](\A r \in products : \E w \in Committers(r.sku) : FromWriter(r, w))
  /\ [](AllWritersDone =>
          \A x \in UNION {BatchSkus(w) : w \in DOMAIN writers} :
            IF Committers(x) = {}
              THEN ~\E r \in products : r.sku = x
              ELSE \E r \in products :
                     /\ r.sku = x
                     /\ \E w \in Committers(x) :
                          /\ FromWriter(r, w)
                          /\ \A v \in Committers(x) :
                               writers[v].order <= writers[w].order)
  /\ [][\A w \in DOMAIN writers :
          IF writers[w].state = "open" /\ writers'[w].state = "committed"
            THEN {r \in products' : r.sku \notin BatchSkus(w)}
                   = {r \in products : r.sku \notin BatchSkus(w)}
            ELSE writers'[w] # writers[w] => products' = products]_vars

\* C28, its case: two calls whose statements interleaved have both
\* committed; the sku both wrote has one row, that of the later commit, which
\* overwrote the row of the earlier one, and the sku only the first call wrote
\* has the first call's row.
C28_Witness ==
  /\ AllWritersDone
  /\ writers[1].batch = <<1, 3>>
  /\ writers[2].batch = <<2, 1>>
  /\ writers[1].order = 1
  /\ writers[2].order = 2
  /\ writers[2].first < writers[1].last
  /\ writers[1].first < writers[2].last
  /\ \E r \in products : r.sku = 1 /\ FromWriter(r, 2) /\ r.updated
  /\ \E r \in products : r.sku = 3 /\ FromWriter(r, 1)

\* The request of call u settles in this step.
Settles(u) == requests[u].state = "await" /\ requests'[u] # requests[u]

\* C29: makeProxyRequest(url, options, maxRetries) makes at most maxRetries
\* attempts, the k-th through credential (k - 1) mod PoolSize of its rotator;
\* an attempt answered 429 or 407 is followed at once by the next attempt
\* (by the rejection when it was the last one allowed); the call resolves
\* with the body of its first successful attempt, after which it makes no
\* other; and a call that rejects, its attempts used up on retriable errors
\* included, rejects with the error of its last attempt.
C29_ProxyRequestBoundedRetries ==
  /\ [](\A u \in DOMAIN requests :
          LET r == requests[u]
          IN /\ Len(r.used) <= r.maxRetries
             /\ \A k \in 1..Len(r.used) : r.used[k] = (k - 1) % PoolSize
             /\ r.succeeded = IF r.state = "resolved" THEN 1 ELSE 0
             /\ r.state = "resolved" =>
                  /\ ProxyClassify(r.last) = "return"
                  /\ r.data = [url |-> u, attempt |-> Len(r.used)]
             /\ r.state = "rejected" =>
                  /\ r.thrown = r.last
                  /\ ProxyClassify(r.last) # "return"
                  /\ ProxyClassify(r.last) \in {"retry", "wait"} =>
                       Len(r.used) = r.maxRetries)
  /\ [][\A u \in DOMAIN requests :
          (Settles(u) /\ RateLimited(requests'[u].last)) =>
             IF Len(requests[u].used) < requests[u].maxRetries
               THEN /\ requests'[u].state = "await"
                    /\ Len(requests'[u].used) = Len(requests[u].used) + 1
               ELSE requests'[u].state = "rejected"]_vars
  /\ [][\A u \in DOMAIN requests :
          requests[u].state \in {"resolved", "rejected"} =>
            requests'[u] = requests[u]]_vars

\* C29, its case: called with maxRetries 2, the first attempt was answered
\* 429 and the second succeeded; the call has resolved with the body of the
\* second attempt, made through the second credential.
C29_Witness ==
  /\ parallel.state = "none"
  /\ 1 \in DOMAIN requests
  /\ requests[1].maxRetries = 2
  /\ requests[1].state = "resolved"
  /\ requests[1].lastError.status = 429
  /\ requests[1].used = <<0, 1>>
  /\ requests[1].data = [url |-> 1, attempt |-> 2]

\* The urls of the list whose makeProxyRequest call resolved.
Succeeded ==
  {u \in 1..parallel.urls : u \in DOMAIN requests /\ requests[u].state = "resolved"}

\* C30: makeParallelProxyRequests(urls, options, concurrency) never rejects
\* because a url failed.  Once called it returns, and what it returns are the
\* bodies of exactly the urls whose request succeeded, in the order of the
\* list, the failed urls left out: as many results as successful urls.
C30_ParallelRequestsOmitFailures ==
  /\ [](parallel.state # "rejected")
  /\ [](parallel.state = "done" =>
          /\ DOMAIN requests = 1..parallel.urls
          /\ \A u \in DOMAIN requests : requests[u].state \in {"resolved", "rejected"}
          /\ Len(parallel.results) = Cardinality(Succeeded)
          /\ \A j \in 1..Len(parallel.results) :
               /\ parallel.results[j].url \in Succeeded
               /\ parallel.results[j] = requests[parallel.results[j].url].data
          /\ \A j \in 1..(Len(parallel.results) - 1) :
               parallel.results[j].url < parallel.results[j + 1].url)
  /\ (parallel.state = "loop") ~> (parallel.state = "done")

\* C30, its case: of three urls fetched two at a time the second failed; the
\* call has returned the bodies of the first and the third, in that order.
C30_Witness ==
  /\ parallel.state = "done"
  /\ parallel.urls = 3
  /\ parallel.concurrency = 2
  /\ requests[2].state = "rejected"
  /\ Len(parallel.results) = 2
  /\ parallel.results[1] = requests[1].data
  /\ parallel.results[2] = requests[3].data
  /\ parallel.results[2].url = 3

(***************************************************************************)
(* C31..C40                                                                *)
(***************************************************************************)
\* The page of items the loop holds, and what extractProductsFromApi makes
\* of it.
PageOfItems == Body(response, loop.i).items
Extracted == extractProductsFromApi(Body(response, loop.i), loop.i)

\* C31: an embedded JSON string of an item (_salvageSourceVehicle, fitments,
\* fitmentJson) that cannot be parsed makes only that sub-field null: the
\* record is still produced, one per item and in the order of the page, with
\* its sku, price and category and with its other sub-fields parsed, and the
\* other records of the page are what they would be without it.
C31_UnparsableSubFieldOnlyNulled ==
  (pc = "page" /\ response.kind = "products") =>
    /\ Len(Extracted) = Len(PageOfItems)
    /\ \A k \in 1..Len(PageOfItems) :
         LET item == PageOfItems[k]
             product == Extracted[k]
         IN /\ product.sku = item.number
            /\ product.price = item.price
            /\ product.categoryUrl = loop.i
            /\ product.sourceVehicleData = "parsed" <=> item.salvageSourceVehicle = "json"
            /\ product.fitments = "parsed" <=> item.fitments = "json"
            /\ product.fitmentJson = "parsed" <=> item.fitmentJson = "json"
            /\ product.sourceVehicleData \in {"parsed", "null"}
            /\ product.fitments \in {"parsed", "null"}
            /\ product.fitmentJson \in {"parsed", "null"}

\* C31, its case: a full page on which one item has a fitments string that
\* does not parse while its two other strings do; its record is there with
\* fitments null and the two others parsed.
C31_Witness ==
  /\ pc = "page"
  /\ response.kind = "products"
  /\ Len(Extracted) = take
  /\ \E k \in 1..Len(PageOfItems) :
       /\ PageOfItems[k].fitments = "garbage"
       /\ PageOfItems[k].salvageSourceVehicle = "json"
       /\ PageOfItems[k].fitmentJson = "json"
       /\ Extracted[k].fitments = "null"
       /\ Extracted[k].sourceVehicleData = "parsed"
       /\ Extracted[k].fitmentJson = "parsed"

\* C32: getProxyByIndex(i) returns the credential at index i and leaves the
\* rotation cursor where it is: the getNextProxy call that follows returns
\* the credential it would have returned without it (the one after the
\* credential the previous getNextProxy call returned, the first of the pool
\* when there was none), also when getProxyByIndex is the first call made on
\* the manager.
C32_GetProxyByIndexLeavesCursor ==
  /\ [](\A c \in DOMAIN clients : \A j \in 1..Len(clients[c].byIndex) :
          clients[c].byIndex[j].credential = clients[c].byIndex[j].index)
  /\ [][\A c \in DOMAIN clients :
          clients'[c].byIndex # clients[c].byIndex =>
            /\ proxyRotator' = proxyRotator
            /\ handed' = handed]_vars
  /\ [][handed' # handed =>
          handed'[Len(handed')].credential =
            (IF handed = <<>> THEN 0
             ELSE NextCredential(handed[Len(handed)].credential))]_vars

\* C32, its case: the first call made on the manager was getProxyByIndex(2);
\* the getNextProxy call after it has returned the first credential.
C32_Witness ==
  /\ Len(handed) = 1
  /\ handed[1].credential = 0
  /\ \E c \in DOMAIN clients :
       /\ Len(clients[c].byIndex) = 1
       /\ clients[c].byIndex[1].first
       /\ clients[c].byIndex[1].index = 2
       /\ clients[c].byIndex[1].credential = 2

\* C33: whenever the pagination loop continues to a next iteration of the
\* same category, the inter-page delay elapses between the end of the current
\* iteration and the next request, also when the iteration ended in a page
\* error: an iteration that comes back to the head of the loop straight from
\* the page's processing or from the page-level catch, without the delay, is
\* the last one of its category.
C33_DelayBetweenPageRequests ==
  [][(pc \in {"page", "pageError"} /\ pc' = "loop") => ~LoopContinues(loop')]_vars

\* A page iteration of the log that is over: processed (and, when it held
\* products, saved), or ended by an error.
PageEnded(e) == e.result \in {"ok", "malformed", "400", "error"}

\* The upstream requests of the run that are in flight.
InFlight ==
  {ck \in {<<c, k>> : c \in DOMAIN log, k \in 1..MaxPagesCfg + DefaultMaxPages} :
     ck[2] <= Len(log[ck[1]]) /\ log[ck[1]][ck[2]].result = "pending"}

\* C34: within a run categories are processed strictly in sequence and pages
\* strictly in sequence.  At most one upstream request of the run is in
\* flight at any time; every page before the latest of a category is over;
\* every category before the current one is over (its last page processed,
\* failed, or answered with an empty body that broke the loop) and no later
\* category has been asked for anything; and when a request is issued every earlier page
\* of the category is over, the page before it, when it held products,
\* having been extracted and handed to saveProducts.
C34_CategoriesAndPagesInSequence ==
  /\ [](Cardinality(InFlight) <= 1)
  /\ [](\A c \in DOMAIN log : \A k \in 1..(Len(log[c]) - 1) : PageEnded(log[c][k]))
  /\ [](\A c \in DOMAIN log :
          /\ c < loop.i => \A k \in 1..Len(log[c]) :
                             \/ PageEnded(log[c][k])
                             \/ k = Len(log[c]) /\ log[c][k].result = "fetched"
          /\ c > loop.i => log[c] = <<>>)
  /\ [][\A c \in DOMAIN log :
          (c \in DOMAIN log' /\ Len(log'[c]) = Len(log[c]) + 1) =>
            /\ c = loop.i
            /\ InFlight = {}
            /\ \A k \in 1..Len(log[c]) : PageEnded(log[c][k])
            /\ (Len(log[c]) > 0 /\ log[c][Len(log[c])].result = "ok"
                  /\ log[c][Len(log[c])].n > 0) =>
                 /\ lastSave.runId = runStatus.id
                 /\ lastSave.given = log[c][Len(log[c])].n]_vars

\* C34, its case: the first category is over after two pages, and the first
\* request of the second category is in flight, the only one.
C34_Witness ==
  /\ pc = "fetch"
  /\ loop.i = 2
  /\ Len(log[1]) = 2
  /\ log[1][1].result = "ok"
  /\ PageEnded(log[1][2])
  /\ Len(log[2]) = 1
  /\ InFlight = {<<2, 1>>}

\* The makeProxyRequest calls that have not settled: their request is under
\* way, or they wait to try again.
Unsettled(reqs) == {u \in DOMAIN reqs : reqs[u].state \in {"await", "wait"}}

\* C35: makeParallelProxyRequests(urls, options, concurrency) never has more
\* than `concurrency` requests in flight at once, and the requests of a batch
\* are started only after every request of the batch before it has settled.
C35_ParallelRequestsBounded ==
  /\ [](parallel.state # "none" =>
          Cardinality(Unsettled(requests)) <= parallel.concurrency)
  /\ [][(parallel.state # "none" /\ DOMAIN requests' # DOMAIN requests) =>
          /\ Unsettled(requests) = {}
          /\ Cardinality(DOMAIN requests' \ DOMAIN requests) <= parallel.concurrency
          /\ \A u \in DOMAIN requests : requests'[u] = requests[u]]_vars

\* C35, its case: three urls fetched two at a time; the two requests of the
\* first batch have settled and the third url's request, alone in the second
\* batch, is under way.
C35_Witness ==
  /\ parallel.state = "await"
  /\ parallel.urls = 3
  /\ parallel.concurrency = 2
  /\ parallel.i = 2
  /\ DOMAIN requests = 1..3
  /\ Unsettled(requests) = {3}

\* C36: the max-page ceiling also holds at its boundary: when the configured
\* maxPages is 0, no page is requested for any category.  (A maxPages of 0
\* and one that is not set are the same value to `config.maxPages || 10`,
\* and the same value here.)
C36_ZeroMaxPagesRequestsNothing ==
  (pc # "scrape" /\ config.maxPages = 0) => \A c \in DOMAIN log : log[c] = <<>>

\* C37: in every reachable state a run record has completedAt set if and only
\* if its status is terminal (completed, failed or error), whichever writer
\* (addScraperJob or updateRunStatus) updated it last.
C37_CompletedAtIffTerminal ==
  \A id \in DOMAIN runs : runs[id].completedAt <=> runs[id].status \in Terminal

\* C38: every record handed to the persister is accounted for exactly once.
\* For each saveProducts call saved + duplicates + errors is the number of
\* records passed in (duplicates is never counted: it stays 0), and so after
\* every page and at the end of the run products.saved + products.duplicates
\* + products.errors = products.scraped, also when a batch transaction fails
\* as a whole.
C38_EveryRecordAccountedOnce ==
  /\ lastSave # NoSave => lastSave.saved + lastSave.errors = lastSave.given
  /\ pc \notin {"scrape", "page"} =>
       stats.products.saved + stats.products.duplicates + stats.products.errors
         = stats.products.scraped

\* The sku of the row an upstream item is written to.
RowKey(item) == ProductData(ExtractProduct(item, 1), 1, 1).sku

\* Two upstream items carry the same number, or, both without a number, the
\* same id.
SameNumberOrId(a, b) ==
  IF a.number # 0 \/ b.number # 0
    THEN a.number = b.number
    ELSE a.id # 0 /\ a.id = b.id

\* C39: every product row in the store has a non-empty sku, and two upstream
\* items are written to the same row only if they carry the same number/id:
\* an item without number and id never overwrites the row of another item.
C39_RowsKeyedByNumberOrId ==
  /\ \A r \in products : r.sku # 0
  /\ \A j, k \in 1..Len(sightings) :
       (j < k /\ RowKey(sightings[j]) = RowKey(sightings[k])) =>
          SameNumberOrId(sightings[j], sightings[k])

\* C40: the number of products a run scrapes (products.scraped) never exceeds
\* the maxProducts value the trigger passed (maxProductsToScrape in the run's
\* configuration).
C40_ScrapedWithinMaxProducts ==
  (caller = "job" /\ job.maxProductsToScrape # 0
     /\ pc \notin {"idle", "job", "jobFailed", "scrape"}) =>
    stats.products.scraped <= job.maxProductsToScrape

=============================================================================
